---- MODULE Spec2Model ----
(***************************************************************************)
(* Model of the resumable batch-transfer engine (executeTransfer,          *)
(* executeTokenTransfer) with its on-disk progress snapshot, and of the    *)
(* wallet drain orchestrator (executeDrainWallet).                         *)
(***************************************************************************)
EXTENDS Integers, Sequences, FiniteSets, TLC

(***************************************************************************)
(* Bounds of the model.                                                    *)
(***************************************************************************)
MaxRecords == 3
MaxBalance == 2 * MaxRecords
MaxBatch == 2
MaxLines == 2
MaxRuns == 2

\* the rows a recipients file is made of: <<address, amount>>
Rows == {<<"A", "1">>, <<"A", "2">>, <<"B", "1">>}

\* parseFloat on the amount strings the model uses
ParseFloat(s) ==
    CASE s = "1" -> 1
      [] s = "0" -> 0
      [] s = "-1" -> -1
      [] OTHER -> 2

\* isNaN(parseFloat(s)): the text does not start with a number
IsNaN(s) == s \in {"", "x", "amount"}

\* rows of a recipients file as the CSV parser hands them to the validator:
\* a positive amount, a zero and a negative amount, no address, no amount,
\* an amount that is not a number
RawRows == {<<"A", "1">>, <<"A", "0">>, <<"A", "-1">>,
            <<"", "1">>, <<"A", "">>, <<"A", "x">>}

VARIABLES
    csv,          \* the recipients file: sequence of <<address, amount>> rows
    disk,         \* the progress file: [kind: absent | corrupt | json, data]
    pc,           \* position of the engine process
    variant,      \* which engine runs: "sol" (executeTransfer) or "token"
    batchSize,    \* normalised batch size of the run
    recipients,   \* in-memory working list (recipients / progress)
    pending,      \* pendingTransfers: indices of the working list, in order
    batchNo,      \* 0-based number of the current batch
    k,            \* 1-based position inside the current batch
    report,       \* what the run logged at its end
    ledger,       \* per record: the ledger confirmed a transfer submitted for it
    runSubs,      \* indices submitted by the current run, in order
    outcomes,     \* outcome of each submission of the current run, in order
    loadedDone    \* indices marked complete in the snapshot this run loaded

evars == <<csv, disk, pc, variant, batchSize, recipients, pending, batchNo, k,
           report, ledger, runSubs, outcomes, loadedDone>>

VARIABLES
    dpc,          \* position of executeDrainWallet
    opts,         \* the options of the invocation, defaults applied
    assets,       \* what discoverWalletAssets returned
    filtered,     \* filteredTokenAccounts
    di,           \* 1-based index of the loop the drain is in
    transferred,  \* transferAllTokens: holdings whose transfer succeeded
    stepErrors,   \* error list local to transferAllTokens / closeTokenAccounts
    closeAcc,     \* closeTokenAccounts: closed count and reclaimed rent
    result,       \* the DrainResult being filled in, or returned
    calls,        \* ledger-mutating calls issued so far, with their outcome
    walletSol,    \* native balance of the source wallet on the ledger
    atas,         \* mints for which the destination has no token account
    lookups,      \* mints whose destination-account query is outstanding
    sweepAmount,  \* the sweep submitted: transferAmount, and lamports sent
    thrownBy      \* the step whose error executeDrainWallet rethrew

dvars == <<dpc, opts, assets, filtered, di, transferred, stepErrors, closeAcc,
           result, calls, walletSol, atas, lookups, sweepAmount,
           thrownBy>>

VARIABLES
    bpc,                   \* position of executeBatchDrainWallet
    srcLines,              \* the source-wallets file, one field list per line
    dstLines,              \* the destination file, one field list per line
    indices,               \* options.indices, the index allowlist
    keepSolOpt,            \* options.keepSol: whether given, and its value
    sourceWallets,         \* what readWalletsFromCSV returned
    destinationAddresses,  \* what parseDestinationAddresses returned
    bi,                    \* the loop variable i
    successCount,
    failCount,
    failedOps,             \* the FailedOperation records collected so far
    invocations,           \* the executeDrainWallet calls made, with outcome
    failedFile,            \* the records written to the failed-pairs file
    statusLine,            \* the closing status line that was logged
    bthrownBy,             \* the step whose error the coordinator rethrew
    rerunOf                \* the failed-pairs file a re-run took --indices from

bvars == <<bpc, srcLines, dstLines, indices, keepSolOpt, sourceWallets,
           destinationAddresses, bi, successCount, failCount, failedOps,
           invocations, failedFile, statusLine, bthrownBy, rerunOf>>

VARIABLES
    mpc,           \* position of the many-to-many transfer process
    transferLines, \* the lines of the transfer instructions file
    instructions,  \* the parsed transfer instructions
    mi,            \* loop index of executeBatchTransfer
    results,       \* the TransferResult list of the run
    settled,       \* per instruction, the transfers the ledger confirmed
    runs,          \* invocations of the command so far
    outFile        \* the results file written by the last finished run

mvars == <<mpc, transferLines, instructions, mi, results, settled, runs,
           outFile>>

VARIABLES
    cpc,           \* position of the amount conversion of one token transfer
    tokRaw,        \* the raw balance of the holding, in base units
    tokDecimals,   \* the decimals of its mint
    tokAmount,     \* Number(amount) / Math.pow(10, decimals)
    rawOut         \* what convertToRawAmount returned, or that it threw

cvars == <<cpc, tokRaw, tokDecimals, tokAmount, rawOut>>

VARIABLES
    wpc,           \* position of unwrapSol
    wsolOpen,      \* the wallet's wrapped-native account exists
    wsolLamports,  \* the wrapped balance held by that account
    wsolBalance,   \* the wrapped balance unwrapSol read
    wAmount,       \* the amount argument; 0 stands for undefined
    amountToUnwrap \* the amount unwrapSol decided to unwrap

wvars == <<wpc, wsolOpen, wsolLamports, wsolBalance, wAmount,
           amountToUnwrap>>

vars == <<evars, dvars, bvars, mvars, cvars, wvars>>

----------------------------------------------------------------------------
(***************************************************************************)
(* Record store.                                                           *)
(***************************************************************************)
CsvFiles == UNION {[1..n -> Rows] : n \in 0..MaxRecords}

\* recipients files with rows of every kind
RawFiles == UNION {[1..n -> RawRows] : n \in 0..MaxRecords}

Absent == [kind |-> "absent", data |-> <<>>]
Corrupt == [kind |-> "corrupt", data |-> <<>>]
Json(list) == [kind |-> "json", data |-> list]

\* validateRecipient / validateTokenRecipient on a row without a
\* transferred column
validateRecipient(row) ==
    [address |-> row[1], amount |-> row[2], transferred |-> FALSE]

\* the validator throws: !record.address, !record.amount, or an amount
\* that parseFloat cannot read
ValidatorThrows(row) == row[1] = "" \/ row[2] = "" \/ IsNaN(row[2])

\* a reader that leaves out the rows the validator refuses
readRecordsFromCSV_SkipInvalid(file) ==
    LET good == SelectSeq(file, LAMBDA row : ~ValidatorThrows(row))
    IN [exit |-> FALSE,
        value |-> [i \in 1..Len(good) |-> validateRecipient(good[i])]]

\* records.map(validator) inside try/catch: one throwing row ends the
\* process (logger.error, process.exit(1)); otherwise every row is a record
readRecordsFromCSV(file) ==
    IF \E i \in 1..Len(file) : ValidatorThrows(file[i])
    THEN [exit |-> TRUE, value |-> <<>>]
    ELSE [exit |-> FALSE,
          value |-> [i \in 1..Len(file) |-> validateRecipient(file[i])]]

\* loadProgress: the parsed list, or null when the file is missing or when
\* reading or parsing it throws (the catch block logs and falls through)
loadProgress(d) ==
    IF d.kind = "json" THEN [null |-> FALSE, value |-> d.data]
    ELSE [null |-> TRUE, value |-> <<>>]

\* a loader that takes an unreadable snapshot for an empty working set
LoadWorkingSet_EmptyOnCorrupt(d, file) ==
    IF d.kind = "json" THEN d.data
    ELSE IF d.kind = "corrupt" THEN <<>>
    ELSE readRecordsFromCSV(file).value

\* loadProgress(progressFile) || readRecordsFromCSV(...)
LoadWorkingSet(d, file) ==
    IF ~loadProgress(d).null THEN loadProgress(d).value
    ELSE readRecordsFromCSV(file).value

\* the run ends inside readRecordsFromCSV: executeTransfer reads the
\* recipients file only when loadProgress returned null, executeTokenTransfer
\* reads it before it looks for a snapshot
LoadExits(v, d, file) ==
    /\ v = "sol" => loadProgress(d).null
    /\ readRecordsFromCSV(file).exit

\* saveProgress: overwrite the whole file
saveProgress(list) == Json(list)

----------------------------------------------------------------------------
(***************************************************************************)
(* Pure helpers of the engine.                                             *)
(***************************************************************************)
\* recipients.filter(r => r.transferred !== true), as indices (the filtered
\* array holds references to the same objects)
RECURSIVE PendingFrom(_, _)
PendingFrom(list, i) ==
    IF i > Len(list) THEN <<>>
    ELSE (IF list[i].transferred # TRUE THEN <<i>> ELSE <<>>)
         \o PendingFrom(list, i + 1)

\* a filter that keeps every record, complete or not
PendingOf_KeepAll(list) == [i \in 1..Len(list) |-> i]

PendingOf(list) == PendingFrom(list, 1)

RECURSIVE SumAmounts(_, _)
SumAmounts(list, idxs) ==
    IF idxs = <<>> THEN 0
    ELSE ParseFloat(list[Head(idxs)].amount) + SumAmounts(list, Tail(idxs))

totalAmountNeeded(list) == SumAmounts(list, PendingOf(list))

\* recipients.findIndex(r => r.address === a && r.amount === m); 0 for -1
RECURSIVE FindFrom(_, _, _, _)
FindFrom(list, i, a, m) ==
    IF i > Len(list) THEN 0
    ELSE IF list[i].address = a /\ list[i].amount = m THEN i
    ELSE FindFrom(list, i + 1, a, m)

findIndex(list, a, m) == FindFrom(list, 1, a, m)

\* mark the record found by findIndex; the list is unchanged when none
MarkTransferred(list, a, m) ==
    LET index == findIndex(list, a, m)
    IN IF index # 0 THEN [list EXCEPT ![index].transferred = TRUE] ELSE list

Min(a, b) == IF a < b THEN a ELSE b

\* Math.ceil(n / b) for b >= 1
Ceil(n, b) == (n + b - 1) \div b

\* a slice that runs one record into the next batch
BatchOf_Overlap(pend, no, size) ==
    SubSeq(pend, no * size + 1, Min(no * size + size + 1, Len(pend)))

\* pendingTransfers.slice(i, i + batchSize) with i = batchNo * batchSize
BatchOf(pend, no, size) ==
    SubSeq(pend, no * size + 1, Min(no * size + size, Len(pend)))

CurrentBatch == BatchOf(pending, batchNo, batchSize)

\* totalBatches = Math.ceil(pending.length / batchSize)
totalBatches == Ceil(Len(pending), batchSize)

\* the condition of the batch loop after batch batchNo: executeTransfer
\* tests i < pendingTransfers.length after i += batchSize,
\* executeTokenTransfer tests batchIndex < totalBatches after batchIndex++
MoreBatches ==
    IF variant = "sol" THEN (batchNo + 1) * batchSize < Len(pending)
    ELSE batchNo + 1 < totalBatches
Current == CurrentBatch[k]

----------------------------------------------------------------------------
(***************************************************************************)
(* The engine process.                                                     *)
(***************************************************************************)
\* the --batch-size input: not a number, or an integer
BatchInputs == {[nan |-> TRUE, val |-> 0]} \cup
               {[nan |-> FALSE, val |-> v] : v \in 0..MaxBatch}

\* a default that is not 1
NormalizeBatchSize_Max(b) == IF b.nan \/ b.val < 1 THEN MaxBatch ELSE b.val

\* executeTransfer: isNaN(batchSizeNum) || batchSizeNum < 1 -> 1
NormalizeBatchSize(b) == IF b.nan \/ b.val < 1 THEN 1 ELSE b.val

\* executeTokenTransfer: isNaN(batchSize) || batchSize <= 0 -> process.exit(1)
TokenBatchRejected(b) == b.nan \/ b.val <= 0

\* a pre-flight comparison that lets a shortfall of one unit pass
InsufficientBalance_OffByOne(balance, list) ==
    balance + 1 < totalAmountNeeded(list)

\* executeTransfer: balanceInSol < totalAmountNeeded -> process.exit(1)
InsufficientBalance(balance, list) == balance < totalAmountNeeded(list)

DoneIn(d) ==
    IF loadProgress(d).null THEN {}
    ELSE {i \in 1..Len(loadProgress(d).value) :
            loadProgress(d).value[i].transferred}

NoMemory ==
    /\ recipients' = <<>>
    /\ pending' = <<>>
    /\ batchNo' = 0
    /\ k' = 0
    /\ batchSize' = 1
    /\ runSubs' = <<>>
    /\ outcomes' = <<>>
    /\ loadedDone' = {}

\* a fatal exit that first writes the list it loaded to the progress file
FatalExit_SavesSnapshot(v, why) ==
    /\ pc' = "exited"
    /\ variant' = v
    /\ report' = why
    /\ NoMemory
    /\ disk' = saveProgress(LoadWorkingSet(disk, csv))
    /\ UNCHANGED <<cvars, wvars, mvars, bvars, dvars, csv, ledger>>

\* the run stops in process.exit(1) before the working set is used
FatalExit(v, why) ==
    /\ pc' = "exited"
    /\ variant' = v
    /\ report' = why
    /\ NoMemory
    /\ UNCHANGED <<cvars, wvars, mvars, bvars, dvars, csv, disk, ledger>>

\* the run enters the batch loop, or ends at once when nothing is pending
EnterLoop(v, size, list, endReport) ==
    /\ variant' = v
    /\ batchSize' = size
    /\ recipients' = list
    /\ pending' = PendingOf(list)
    /\ batchNo' = 0
    /\ runSubs' = <<>>
    /\ outcomes' = <<>>
    /\ loadedDone' = DoneIn(disk)
    /\ IF PendingOf(list) = <<>>
       THEN pc' = "done" /\ k' = 0 /\ report' = endReport
       ELSE pc' = "loop" /\ k' = 1 /\ report' = "none"
    /\ UNCHANGED <<cvars, wvars, mvars, bvars, dvars, csv, disk, ledger>>

\* executeTransfer up to the batch loop
StartTransfer(b, keyOk, balance) ==
    /\ pc = "idle"
    /\ LET list == LoadWorkingSet(disk, csv)
       IN IF ~keyOk
          THEN FatalExit("sol", "keypair")
          ELSE IF LoadExits("sol", disk, csv)
          THEN FatalExit("sol", "csv")
          ELSE IF InsufficientBalance(balance, list)
          THEN FatalExit("sol", "insufficient")
          ELSE EnterLoop("sol", NormalizeBatchSize(b), list, "summary")

\* answers of getTokenAccountBalance: an empty account, a funded one
TokenBalances == {0, MaxBalance}

\* executeTokenTransfer up to the batch loop; uiAmount is the answer of
\* getTokenAccountBalance, which is logged and not used otherwise
StartTokenTransfer(b, keyOk, mintOk, tokenAccountOk, uiAmount) ==
    /\ pc = "idle"
    /\ LET list == LoadWorkingSet(disk, csv)
       IN IF TokenBatchRejected(b)
          THEN FatalExit("token", "batchsize")
          ELSE IF ~keyOk
          THEN FatalExit("token", "keypair")
          ELSE IF ~mintOk
          THEN FatalExit("token", "mint")
          ELSE IF LoadExits("token", disk, csv)
          THEN FatalExit("token", "csv")
          ELSE IF PendingOf(list) = <<>>
          THEN EnterLoop("token", b.val, list, "nopending")
          ELSE IF ~tokenAccountOk
          THEN FatalExit("token", "tokenaccount")
          ELSE EnterLoop("token", b.val, list, "nopending")

\* transferSol / transferTokensToAddress is called for the current record
Submit ==
    /\ pc = "loop"
    /\ pc' = "inflight"
    /\ runSubs' = Append(runSubs, Current)
    /\ UNCHANGED <<cvars, wvars, mvars, bvars, dvars, csv, disk, variant,
                   batchSize, recipients, pending, batchNo, k, report, ledger,
                   outcomes, loadedDone>>

\* the ledger confirms the submitted transfer
LedgerConfirm(i) ==
    /\ pc = "inflight"
    /\ Current = i
    /\ pc' = "confirmed"
    /\ ledger' = [ledger EXCEPT ![i] = TRUE]
    /\ outcomes' = Append(outcomes, "confirmed")
    /\ UNCHANGED <<cvars, wvars, mvars, bvars, dvars, csv, disk, variant,
                   batchSize, recipients, pending, batchNo, k, report, runSubs,
                   loadedDone>>

\* the loops move to the next record, the next batch, or the final report
Advance ==
    IF k < Len(CurrentBatch)
    THEN pc' = "loop" /\ k' = k + 1 /\ batchNo' = batchNo /\ report' = report
    ELSE IF MoreBatches
    THEN pc' = "loop" /\ k' = 1 /\ batchNo' = batchNo + 1 /\ report' = report
    ELSE pc' = "done" /\ k' = 0 /\ batchNo' = batchNo /\ report' = "summary"

\* a catch block that ends the run at the first failed submission
AfterFailure_EndRun ==
    pc' = "done" /\ k' = 0 /\ batchNo' = batchNo /\ report' = "summary"

\* what the catch block of the loop body does with the run
AfterFailure == Advance

\* the submission throws: the catch block logs and the loop goes on
LedgerFail ==
    /\ pc = "inflight"
    /\ AfterFailure
    /\ outcomes' = Append(outcomes, "failed")
    /\ UNCHANGED <<cvars, wvars, mvars, bvars, dvars, csv, disk, variant,
                   batchSize, recipients, pending, ledger, runSubs,
                   loadedDone>>

\* after the await: mark the record found by findIndex, save the snapshot
MarkAndSave ==
    /\ pc = "confirmed"
    /\ LET r == recipients[Current]
           index == findIndex(recipients, r.address, r.amount)
       IN /\ recipients' = MarkTransferred(recipients, r.address, r.amount)
          /\ disk' = IF index # 0 THEN saveProgress(recipients') ELSE disk
    /\ Advance
    /\ UNCHANGED <<cvars, wvars, mvars, bvars, dvars, csv, variant, batchSize,
                   pending, ledger, runSubs, outcomes, loadedDone>>

\* the process ends after its report or after process.exit(1)
ProcessEnd ==
    /\ pc \in {"done", "exited"}
    /\ pc' = "idle"
    /\ variant' = "sol"
    /\ report' = "none"
    /\ NoMemory
    /\ UNCHANGED <<cvars, wvars, mvars, bvars, dvars, csv, disk, ledger>>

\* the process is killed at an arbitrary point of a run
Crash ==
    /\ pc \in {"loop", "inflight", "confirmed"}
    /\ pc' = "idle"
    /\ variant' = "sol"
    /\ report' = "none"
    /\ NoMemory
    /\ UNCHANGED <<cvars, wvars, mvars, bvars, dvars, csv, disk, ledger>>

NoOpts ==
    [dryRun |-> FALSE, closeAccounts |-> TRUE, reclaimRent |-> TRUE,
     keepSol |-> 0, tokens |-> {}, excludeTokens |-> {}, minBalance |-> 0]

NoResult ==
    [success |-> FALSE, sol |-> 0, tokens |-> <<>>, closedAccounts |-> 0,
     reclaimedRent |-> 0, finalBalance |-> 0, errors |-> <<>>]

\* no drain has been invoked
DrainIdle ==
    /\ dpc = "idle"
    /\ opts = NoOpts
    /\ assets = [solBalance |-> 0, tokenAccounts |-> <<>>]
    /\ filtered = <<>>
    /\ di = 0
    /\ transferred = <<>>
    /\ stepErrors = <<>>
    /\ closeAcc = [closed |-> 0, reclaimedRent |-> 0]
    /\ result = NoResult
    /\ calls = <<>>
    /\ walletSol = 0
    /\ atas = {}
    /\ lookups = {}
    /\ sweepAmount = [transferAmount |-> 0, lamports |-> 0]
    /\ thrownBy = "none"

\* transfer-many2many has not been invoked
ManyIdle ==
    /\ mpc = "idle"
    /\ transferLines = <<>>
    /\ instructions = <<>>
    /\ mi = 0
    /\ results = <<>>
    /\ settled = <<>>
    /\ runs = 0
    /\ outFile = <<>>

\* no batch drain has been invoked
BatchIdle ==
    /\ bpc = "idle"
    /\ srcLines = <<>>
    /\ dstLines = <<>>
    /\ indices = {}
    /\ keepSolOpt = [given |-> FALSE, value |-> 0]
    /\ sourceWallets = <<>>
    /\ destinationAddresses = <<>>
    /\ bi = 0
    /\ successCount = 0
    /\ failCount = 0
    /\ failedOps = <<>>
    /\ invocations = <<>>
    /\ failedFile = <<>>
    /\ statusLine = "none"
    /\ bthrownBy = "none"
    /\ rerunOf = <<>>

\* no amount is being converted
ConvIdle ==
    /\ cpc = "idle"
    /\ tokRaw = 0
    /\ tokDecimals = 0
    /\ tokAmount = [num |-> 0, scale |-> 0]
    /\ rawOut = [throws |-> FALSE, value |-> 0]

\* unwrap-sol has not been invoked
UnwrapIdle ==
    /\ wpc = "idle"
    /\ wsolOpen = FALSE
    /\ wsolLamports = 0
    /\ wsolBalance = 0
    /\ wAmount = 0
    /\ amountToUnwrap = 0

\* no run yet on the recipients file, and no snapshot of it
FirstRunOn(file) ==
    /\ ConvIdle
    /\ UnwrapIdle
    /\ DrainIdle
    /\ BatchIdle
    /\ ManyIdle
    /\ csv = file
    /\ disk = Absent
    /\ pc = "idle"
    /\ variant = "sol"
    /\ batchSize = 1
    /\ recipients = <<>>
    /\ pending = <<>>
    /\ batchNo = 0
    /\ k = 0
    /\ report = "none"
    /\ ledger = [i \in 1..MaxRecords |-> FALSE]
    /\ runSubs = <<>>
    /\ outcomes = <<>>
    /\ loadedDone = {}

Init == \E file \in CsvFiles : FirstRunOn(file)

\* the engine on recipients files that can hold rows of every kind
LoadInit == \E file \in RawFiles : FirstRunOn(file)

RunStart ==
    \/ /\ pc = "idle"
       /\ \E b \in BatchInputs, keyOk \in BOOLEAN, balance \in 0..MaxBalance :
             StartTransfer(b, keyOk, balance)
    \/ /\ pc = "idle"
       /\ \E b \in BatchInputs, keyOk \in BOOLEAN, mintOk \in BOOLEAN,
             tokenAccountOk \in BOOLEAN, uiAmount \in TokenBalances :
             StartTokenTransfer(b, keyOk, mintOk, tokenAccountOk, uiAmount)

Confirm == \E i \in 1..MaxRecords : LedgerConfirm(i)

Next ==
    \/ RunStart
    \/ Submit
    \/ Confirm
    \/ LedgerFail
    \/ MarkAndSave
    \/ ProcessEnd
    \/ Crash

Spec == Init /\ [][Next]_vars

LoadSpec == LoadInit /\ [][Next]_vars

\* runs that are never killed
NextNoCrash ==
    \/ RunStart
    \/ Submit
    \/ Confirm
    \/ LedgerFail
    \/ MarkAndSave
    \/ ProcessEnd

GoodStart ==
    /\ RunStart
    /\ pc' # "exited"

\* a step of the batch loop: the process runs on, and the ledger answers
\* every submission with a confirmation or a failure
LoopStep ==
    \/ Submit
    \/ Confirm
    \/ LedgerFail
    \/ MarkAndSave

\* a run that is not killed keeps running
FairSpec ==
    /\ Init
    /\ [][NextNoCrash]_vars
    /\ WF_vars(LoopStep)

\* the user re-invokes the engine for ever with a loadable key and enough
\* balance, and a submission that is attempted again and again is
\* eventually confirmed
ResumeSpec ==
    /\ Init
    /\ [][NextNoCrash]_vars
    /\ SF_vars(GoodStart)
    /\ WF_vars(Submit)
    /\ WF_vars(MarkAndSave)
    /\ WF_vars(ProcessEnd)
    /\ \A i \in 1..MaxRecords : SF_vars(LedgerConfirm(i))

\* a kill in the middle of writeFileSync leaves a truncated snapshot file
CrashDuringSave ==
    /\ pc = "confirmed"
    /\ findIndex(recipients, recipients[Current].address,
                 recipients[Current].amount) # 0
    /\ disk' = Corrupt
    /\ pc' = "idle"
    /\ variant' = "sol"
    /\ report' = "none"
    /\ NoMemory
    /\ UNCHANGED <<cvars, wvars, mvars, bvars, dvars, csv, ledger>>

NextTorn ==
    \/ Next
    \/ CrashDuringSave

TornSpec == Init /\ [][NextTorn]_vars

----------------------------------------------------------------------------
(***************************************************************************)
(* Properties of the batch transfer engine.                                *)
(***************************************************************************)
InRun == pc \in {"loop", "inflight", "confirmed"}

\* the completion flag of record i in the snapshot on disk
DiskDone(i) ==
    /\ disk.kind = "json"
    /\ i <= Len(disk.data)
    /\ disk.data[i].transferred

\* C1: a record that is marked complete in the snapshot a run loaded is
\* never submitted by that run, in either engine.
C1_CompletedNeverResubmitted ==
    \A j \in 1..Len(runSubs) : runSubs[j] \notin loadedDone

C1_Witness ==
    /\ loadedDone # {}
    /\ runSubs # <<>>
    /\ pc = "done"

\* the records whose submission the ledger confirmed in the current run
ConfirmedInRun ==
    {runSubs[j] : j \in {n \in 1..Len(outcomes) : outcomes[n] = "confirmed"}}

\* C2: at every point of a run at which the process can be killed, at most
\* one record whose transfer the ledger confirmed in that run is still
\* incomplete in the snapshot on disk, so a kill loses at most the
\* completion of the operation in flight.
C2_AtMostOneConfirmedUnmarked ==
    Cardinality({i \in ConfirmedInRun : ~DiskDone(i)}) <= 1

\* C3: a record is marked complete, in memory or on disk, only if the ledger
\* has confirmed a submission made for that same record.
C3_MarkedOnlyIfConfirmed ==
    /\ \A i \in 1..Len(recipients) : recipients[i].transferred => ledger[i]
    /\ \A i \in 1..Len(csv) : DiskDone(i) => ledger[i]

\* the sum of the amounts of the incomplete records of a working list
RECURSIVE IncompleteSum(_)
IncompleteSum(list) ==
    IF list = <<>> THEN 0
    ELSE (IF Head(list).transferred THEN 0 ELSE ParseFloat(Head(list).amount))
         + IncompleteSum(Tail(list))

\* C4: when the sum of the amounts of the incomplete records exceeds the
\* balance executeTransfer queried, the run ends in its fatal exit with no
\* submission; a run reported as insufficient never submits anything.
C4_InsufficientBalanceSubmitsNothing ==
    /\ [][(pc = "idle" /\ pc' # "idle" /\ variant' = "sol") =>
            \/ pc' = "exited" /\ runSubs' = <<>> /\ disk' = disk
            \/ LET needed == IncompleteSum(LoadWorkingSet(disk, csv))
               IN \A balance \in 0..MaxBalance :
                     needed > balance =>
                        \A b \in BatchInputs, keyOk \in BOOLEAN :
                           ~StartTransfer(b, keyOk, balance)]_vars
    /\ [](report = "insufficient" => (pc = "exited" /\ runSubs = <<>>))

C4_Witness ==
    /\ pc = "exited"
    /\ variant = "sol"
    /\ report = "insufficient"
    /\ runSubs = <<>>
    /\ disk.kind = "json"
    /\ \E i \in 1..Len(csv) : DiskDone(i)

AllComplete == PendingOf(LoadWorkingSet(disk, csv)) = <<>>

\* C7: with runs that are never killed, re-invocation for ever and
\* submissions that succeed when attempted often enough, the snapshot
\* eventually has every record complete and from then on no run submits.
C7_EventuallyAllComplete == <>[](AllComplete /\ ~InRun)

\* the working set a first run builds from the recipients file
FreshFromCsv ==
    [i \in 1..Len(csv) |->
        [address |-> csv[i][1], amount |-> csv[i][2], transferred |-> FALSE]]

\* C6 as stated: with an unparseable snapshot on disk no run gets past its
\* start; it stops with a fatal error.
C6_UnparseableSnapshotIsFatal ==
    disk.kind = "corrupt" => pc \in {"idle", "exited"}

\* C6 amended: an unparseable snapshot is logged and treated as absent; a
\* run started on it rebuilds the working set from the recipients file with
\* every record incomplete, and with a loadable key and enough balance for
\* all records executeTransfer goes on to submit.
C6_UnparseableSnapshotTreatedAsAbsent ==
    [][(pc = "idle" /\ disk.kind = "corrupt" /\ pc' # "idle") =>
         /\ pc' # "exited" =>
               /\ recipients' = FreshFromCsv
               /\ pending' = [i \in 1..Len(csv) |-> i]
               /\ loadedDone' = {}
         /\ (pc' = "exited" /\ variant' = "sol") =>
               LET needed == IncompleteSum(FreshFromCsv)
               IN \A balance \in needed..MaxBalance, b \in BatchInputs :
                     ~StartTransfer(b, TRUE, balance)
         /\ disk' = disk]_vars

C6_Witness ==
    /\ disk.kind = "corrupt"
    /\ pc = "inflight"
    /\ ledger[Current]

----------------------------------------------------------------------------
(***************************************************************************)
(* The wallet drain orchestrator.  Native amounts are in lamports.         *)
(***************************************************************************)
MinRequiredSol == 2000000
FallbackFee == 100000
SweepSafetyBuffer == 1000000
MinTransferAmount == 1000
EstimatedRentPerATA == 2039280
EstimatedTxFeePerToken == 10000
TokenSafetyBuffer == 1000000
MinimumSolFloor == 2000000

\* what the ledger charges for one transaction
LedgerFee == 5000

RECURSIVE Pow10(_)
Pow10(n) == IF n = 0 THEN 1 ELSE 10 * Pow10(n - 1)

Max(a, b) == IF a > b THEN a ELSE b

\* the token accounts a source wallet can own: the wrapped-native account
\* (its lamports are its rent plus the wrapped amount), two token holdings,
\* one of them dust, and an empty account
Catalogue ==
    << [mint |-> "WSOL", address |-> "acctW", amount |-> 3000000,
        decimals |-> 9, isWSol |-> TRUE, rentLamports |-> 5039280],
       [mint |-> "M1", address |-> "acct1", amount |-> 2000000,
        decimals |-> 6, isWSol |-> FALSE, rentLamports |-> 2039280],
       [mint |-> "M2", address |-> "acct2", amount |-> 500,
        decimals |-> 6, isWSol |-> FALSE, rentLamports |-> 2039280],
       [mint |-> "M0", address |-> "acct0", amount |-> 0,
        decimals |-> 6, isWSol |-> FALSE, rentLamports |-> 2039280] >>

\* the accounts of the catalogue at the positions in S, in order
AccountsAt(S) ==
    LET F[i \in 0..Len(Catalogue)] ==
            IF i = 0 THEN <<>>
            ELSE F[i - 1] \o (IF i \in S THEN <<Catalogue[i]>> ELSE <<>>)
    IN F[Len(Catalogue)]

Wallets == {AccountsAt(S) : S \in SUBSET (1..Len(Catalogue))}

SolBalances == {0, 1500000, 3000000, 10000000}

\* the option bags of an invocation, defaults applied; minBalance is in
\* millionths of a token
DrainOptions ==
    [dryRun : BOOLEAN, closeAccounts : BOOLEAN, reclaimRent : BOOLEAN,
     keepSol : {0, 1994000, 5000000}, tokens : {{}, {"WSOL", "M1"}},
     excludeTokens : {{}, {"M1"}}, minBalance : {0, 1000}]

\* Number(amount) / Math.pow(10, decimals) >= minBalance
BalanceAtLeast(h, minBalance) ==
    IF h.decimals >= 6 THEN h.amount >= minBalance * Pow10(h.decimals - 6)
    ELSE h.amount * Pow10(6 - h.decimals) >= minBalance

\* Number(amount) / Math.pow(10, decimals) of the wrapped account, in lamports
WsolAmount(h) == h.amount * Pow10(9 - h.decimals)

\* discoverWalletAssets: accounts whose info cannot be fetched and accounts
\* with a zero balance are left out
discoverWalletAssets(sol, chain, failing) ==
    [solBalance |-> sol,
     tokenAccounts |->
        SelectSeq(chain, LAMBDA h : h.mint \notin failing /\ h.amount > 0)]

\* a filter chain that forgets the minimum-balance filter
FilterTokenAccounts_NoMinBalance(accs, o) ==
    LET byTokens ==
            IF o.tokens # {}
            THEN SelectSeq(accs, LAMBDA h : h.mint \in o.tokens) ELSE accs
    IN IF o.excludeTokens # {}
       THEN SelectSeq(byTokens, LAMBDA h : h.mint \notin o.excludeTokens)
       ELSE byTokens

\* the include-list, exclude-list and minimum-balance filters
FilterTokenAccounts(accs, o) ==
    LET byTokens ==
            IF o.tokens # {}
            THEN SelectSeq(accs, LAMBDA h : h.mint \in o.tokens) ELSE accs
        byExclude ==
            IF o.excludeTokens # {}
            THEN SelectSeq(byTokens, LAMBDA h : h.mint \notin o.excludeTokens)
            ELSE byTokens
    IN IF o.minBalance > 0
       THEN SelectSeq(byExclude, LAMBDA h : BalanceAtLeast(h, o.minBalance))
       ELSE byExclude

\* a pre-flight without the keepSol test
KeepSolUnfeasible_Never(keepSol, solBalance) == FALSE

\* keepSol > 0 && keepSol > assets.solBalance
KeepSolUnfeasible(keepSol, solBalance) ==
    keepSol > 0 /\ keepSol > solBalance

\* a pre-flight that rejects an unfeasible keepSol in dry-run mode too
KeepSolRejected_AlsoDryRun(o, solBalance) ==
    o.keepSol > 0 /\ o.keepSol > solBalance

\* the keepSol test throws unless dryRun
KeepSolRejected(o, solBalance) ==
    KeepSolUnfeasible(o.keepSol, solBalance) /\ ~o.dryRun

DryRunResult(a) ==
    [success |-> TRUE, sol |-> 0, tokens |-> <<>>, closedAccounts |-> 0,
     reclaimedRent |-> 0, finalBalance |-> a.solBalance, errors |-> <<>>]

InitialResult ==
    [success |-> TRUE, sol |-> 0, tokens |-> <<>>, closedAccounts |-> 0,
     reclaimedRent |-> 0, finalBalance |-> 0, errors |-> <<>>]

wsolAccounts(accs) == SelectSeq(accs, LAMBDA h : h.isWSol)
nonWsolAccounts(accs) == SelectSeq(accs, LAMBDA h : ~h.isWSol)

Call(kind, h, ok) == [kind |-> kind, mint |-> h.mint, ok |-> ok]
Err(kind, id) == [kind |-> kind, id |-> id]

\* transferredAssets.tokens: one (mint, amount) entry per transferred holding
TokenEntries(tr) ==
    [i \in 1..Len(tr) |-> [mint |-> tr[i].mint, amount |-> tr[i].amount]]

\* the error propagates out of executeDrainWallet: catch, log, rethrow
Throw(step) ==
    /\ dpc' = "thrown"
    /\ thrownBy' = step

\* executeDrainWallet up to the first ledger-mutating step
DrainStart(keyOk, discoverOk, sol, chain, failing, o) ==
    /\ dpc = "idle"
    /\ opts' = o
    /\ UNCHANGED <<cvars, wvars, mvars, bvars, evars, lookups, di, transferred,
                   stepErrors, closeAcc, calls, atas, sweepAmount>>
    /\ IF ~keyOk
       THEN /\ Throw("key")
            /\ UNCHANGED <<assets, filtered, result, walletSol>>
       ELSE IF ~discoverOk
       THEN /\ Throw("discover")
            /\ walletSol' = sol
            /\ UNCHANGED <<assets, filtered, result>>
       ELSE LET a == discoverWalletAssets(sol, chain, failing)
                f == FilterTokenAccounts(a.tokenAccounts, o)
            IN /\ walletSol' = sol
               /\ assets' = a
               /\ IF KeepSolRejected(o, a.solBalance)
                  THEN /\ Throw("keepSol")
                       /\ UNCHANGED <<filtered, result>>
                  ELSE /\ filtered' = f
                       /\ thrownBy' = thrownBy
                       /\ IF o.dryRun
                          THEN dpc' = "returned" /\ result' = DryRunResult(a)
                          ELSE /\ result' = InitialResult
                               /\ dpc' = IF wsolAccounts(f) = <<>>
                                         THEN "preflight" ELSE "unwrap"

\* a catch block that drops the unwrap error
RecordUnwrapFailure_Dropped(r) == r

\* result.errors.push(`Failed to unwrap WSOL: ...`)
RecordUnwrapFailure(r) ==
    [r EXCEPT !.errors = Append(@, Err("unwrap", "none"))]

\* Step 1: unwrapWSol for the next wrapped account; a failure is recorded
UnwrapStep(ok) ==
    /\ dpc = "unwrap"
    /\ LET accs == wsolAccounts(filtered)
           h == accs[di + 1]
       IN /\ ok => walletSol >= LedgerFee
          /\ calls' = Append(calls, Call("unwrap", h, ok))
          /\ IF ok
             THEN /\ result' = [result EXCEPT
                                  !.sol = @ + WsolAmount(h),
                                  !.reclaimedRent = @ + h.rentLamports]
                  /\ walletSol' = walletSol + h.rentLamports - LedgerFee
             ELSE /\ result' = RecordUnwrapFailure(result)
                  /\ walletSol' = walletSol
          /\ IF di + 1 >= Len(accs)
             THEN dpc' = "preflight" /\ di' = 0
             ELSE dpc' = "unwrap" /\ di' = di + 1
    /\ UNCHANGED <<cvars, wvars, mvars, bvars, evars, lookups, opts, assets,
                   filtered, transferred, stepErrors, closeAcc, atas,
                   sweepAmount, thrownBy>>

\* a test that closes accounts when either switch is on
ClosesAccounts_EitherSwitch(o) == o.closeAccounts \/ o.reclaimRent

\* if (closeAccounts && reclaimRent): Step 3 runs
ClosesAccounts(o) == o.closeAccounts /\ o.reclaimRent

\* transferAllTokens returned: Step 2 ends, Step 3 or Step 4 is next
AfterTokens(tr, errs) ==
    /\ transferred' = tr
    /\ result' = [result EXCEPT !.tokens = TokenEntries(tr),
                                !.errors = @ \o errs]
    /\ stepErrors' = <<>>
    /\ closeAcc' = [closed |-> 0, reclaimedRent |-> 0]
    /\ di' = 0
    /\ dpc' = IF ClosesAccounts(opts) /\ tr # <<>>
              THEN "close" ELSE "sweep"

\* an estimate that leaves out the cost of the accounts to create
minimumSolNeeded_FloorOnly(atasToCreate, accounts) == MinimumSolFloor

\* max(ATA creation cost + transaction fees + safety buffer, 0.002 SOL)
minimumSolNeeded(atasToCreate, accounts) ==
    Max(atasToCreate * EstimatedRentPerATA
          + accounts * EstimatedTxFeePerToken + TokenSafetyBuffer,
        MinimumSolFloor)

\* transferAllTokens before its loop: the balance query is awaited, then
\* one destination-account query per non-wrapped holding is started; the
\* queries are started inside map(), before Promise.all waits for any
TokensPreflight(balOk) ==
    /\ dpc = "preflight"
    /\ LET accs == nonWsolAccounts(filtered)
       IN IF ~balOk
          THEN Throw("preflight") /\ lookups' = {}
          ELSE /\ dpc' = "lookups"
               /\ lookups' = {accs[i].mint : i \in 1..Len(accs)}
               /\ thrownBy' = thrownBy
    /\ atas' = {}
    /\ UNCHANGED <<cvars, wvars, mvars, bvars, evars, opts, assets, filtered,
                   di, transferred, stepErrors, closeAcc, result, calls,
                   walletSol, sweepAmount>>

\* connection.getAccountInfo answers for one holding; a rejection makes
\* Promise.all reject while the other queries are still outstanding
LookupAnswer(mint, ok, needsATA) ==
    /\ dpc = "lookups"
    /\ mint \in lookups
    /\ lookups' = lookups \ {mint}
    /\ IF ok
       THEN /\ atas' = IF needsATA THEN atas \cup {mint} ELSE atas
            /\ UNCHANGED <<dpc, thrownBy>>
       ELSE /\ Throw("preflight")
            /\ atas' = atas
    /\ UNCHANGED <<cvars, wvars, mvars, bvars, evars, opts, assets, filtered,
                   di, transferred, stepErrors, closeAcc, result, calls,
                   walletSol, sweepAmount>>

\* a wait that ends with queries still outstanding
AllAnswered_Any(outstanding) == TRUE

\* await Promise.all(...): every destination-account query has answered
AllAnswered(outstanding) == outstanding = {}

\* Promise.all resolved: the cost estimate decides whether the loop runs
PreflightDecide ==
    /\ dpc = "lookups"
    /\ AllAnswered(lookups)
    /\ LET accs == nonWsolAccounts(filtered)
       IN IF walletSol < minimumSolNeeded(Cardinality(atas), Len(accs))
          THEN AfterTokens(<<>>, <<Err("preflight", "none")>>)
          ELSE IF accs = <<>>
          THEN AfterTokens(<<>>, <<>>)
          ELSE /\ dpc' = "tokens"
               /\ di' = 0
               /\ transferred' = <<>>
               /\ stepErrors' = <<>>
               /\ UNCHANGED <<result, closeAcc>>
    /\ UNCHANGED <<cvars, wvars, mvars, bvars, evars, opts, assets, filtered,
                   calls, walletSol, atas, lookups, sweepAmount, thrownBy>>

\* the loop of transferAllTokens goes on with the next holding after a
\* failed transfer: the index it continues at
IndexAfterFailedTransfer_Break(i, n) == n

IndexAfterFailedTransfer(i, n) == i + 1

\* Step 2: executeAtomicTokenTransfer for the next holding
TokenStep(ok) ==
    /\ dpc = "tokens"
    /\ LET accs == nonWsolAccounts(filtered)
           h == accs[di + 1]
           cost == LedgerFee + (IF h.mint \in atas THEN h.rentLamports ELSE 0)
           tr == IF ok THEN Append(transferred, h) ELSE transferred
           errs == IF ok THEN stepErrors
                   ELSE Append(stepErrors, Err("transfer", h.mint))
           next == IF ok THEN di + 1
                   ELSE IndexAfterFailedTransfer(di, Len(accs))
       IN /\ ok => walletSol >= cost
          /\ calls' = Append(calls, Call("transfer", h, ok))
          /\ walletSol' = IF ok THEN walletSol - cost ELSE walletSol
          /\ IF next >= Len(accs)
             THEN AfterTokens(tr, errs)
             ELSE /\ dpc' = "tokens"
                  /\ di' = next
                  /\ transferred' = tr
                  /\ stepErrors' = errs
                  /\ UNCHANGED <<result, closeAcc>>
    /\ UNCHANGED <<cvars, wvars, mvars, bvars, evars, lookups, opts, assets,
                   filtered, atas, sweepAmount, thrownBy>>

\* a close loop that gives up at the first failed close
IndexAfterFailedClose_Break(i, n) == n

\* the loop of closeTokenAccounts catches a failed close and goes on with
\* the next account: the index it continues at
IndexAfterFailedClose(i, n) == i + 1

\* a drain that goes back to the token transfers after the closes
StepAfterClose_BackToTokens == "tokens"

\* closeTokenAccounts returned: Step 4, transferRemainingSol, is next
StepAfterClose == "sweep"

\* Step 3: closeTokenAccounts over the transferred holdings
CloseStep(ok) ==
    /\ dpc = "close"
    /\ LET h == transferred[di + 1]
           acc == IF ok
                  THEN [closed |-> closeAcc.closed + 1,
                        reclaimedRent |-> closeAcc.reclaimedRent
                                          + h.rentLamports]
                  ELSE closeAcc
           errs == IF ok THEN stepErrors
                   ELSE Append(stepErrors, Err("close", h.address))
           next == IF ok THEN di + 1
                   ELSE IndexAfterFailedClose(di, Len(transferred))
       IN /\ ok => walletSol >= LedgerFee
          /\ calls' = Append(calls, Call("close", h, ok))
          /\ walletSol' = IF ok THEN walletSol + h.rentLamports - LedgerFee
                          ELSE walletSol
          /\ IF next >= Len(transferred)
             THEN /\ dpc' = StepAfterClose
                  /\ di' = 0
                  /\ stepErrors' = <<>>
                  /\ closeAcc' = acc
                  /\ result' = [result EXCEPT
                                  !.closedAccounts = acc.closed,
                                  !.reclaimedRent = @ + acc.reclaimedRent,
                                  !.errors = @ \o errs]
             ELSE /\ dpc' = "close"
                  /\ di' = next
                  /\ stepErrors' = errs
                  /\ closeAcc' = acc
                  /\ result' = result
    /\ UNCHANGED <<cvars, wvars, mvars, bvars, evars, lookups, opts, assets,
                   filtered, transferred, atas, sweepAmount, thrownBy>>

\* getFeeForMessage: a fee, null, or an exception
FeeResponses ==
    {[kind |-> "value", value |-> LedgerFee],
     [kind |-> "null", value |-> 0],
     [kind |-> "throw", value |-> 0]}

estimatedFee(fee) == IF fee.kind = "value" THEN fee.value ELSE FallbackFee

\* a sweep amount computed without the amount to keep
transferAmount_IgnoreKeep(currentSol, keepAmount, fee) ==
    currentSol - (estimatedFee(fee) + SweepSafetyBuffer)

\* currentSol - keepAmount - (estimatedFee + safetyBuffer)
transferAmount(currentSol, keepAmount, fee) ==
    currentSol - keepAmount - (estimatedFee(fee) + SweepSafetyBuffer)

\* Math.floor(transferAmount * LAMPORTS_PER_SOL): transferAmount is a double
\* computed from decimal SOL amounts, so the product lies at the whole
\* number of lamports or just below it, and the floor loses 0 or 1 lamport
lamportsOf(amount, lost) == amount - lost

\* a sweep that submits whatever amount it computed
BelowPracticalMinimum_Never(amount) == FALSE

\* transferAmount <= 0, or transferAmount < minTransferAmount, on the
\* double, given as the lamports it floors to
BelowPracticalMinimum(amount) == amount <= 0 \/ amount < MinTransferAmount

\* Step 4, transferRemainingSol up to the submission
SweepPrepare(balOk, hashOk, fee, lost) ==
    /\ dpc = "sweep"
    /\ LET amount == transferAmount(walletSol, opts.keepSol, fee)
           floored == lamportsOf(amount, lost)
       IN IF ~balOk
          THEN Throw("sweepQuery") /\ UNCHANGED sweepAmount
          ELSE IF walletSol < MinRequiredSol
          THEN dpc' = "final" /\ UNCHANGED <<sweepAmount, thrownBy>>
          ELSE IF ~hashOk
          THEN Throw("sweepQuery") /\ UNCHANGED sweepAmount
          ELSE IF BelowPracticalMinimum(floored)
          THEN dpc' = "final" /\ UNCHANGED <<sweepAmount, thrownBy>>
          ELSE /\ dpc' = "sweepSend"
               /\ sweepAmount' = [transferAmount |-> amount,
                                  lamports |-> floored]
               /\ thrownBy' = thrownBy
    /\ UNCHANGED <<cvars, wvars, mvars, bvars, evars, lookups, opts, assets,
                   filtered, di, transferred, stepErrors, closeAcc, result,
                   calls, walletSol, atas>>

\* Step 4, the native transfer: a failure is logged and rethrown
SweepSend(ok) ==
    /\ dpc = "sweepSend"
    /\ ok => walletSol >= sweepAmount.lamports + LedgerFee
    /\ calls' = Append(calls, [kind |-> "sweep", mint |-> "SOL", ok |-> ok])
    /\ IF ok
       THEN /\ dpc' = "final"
            /\ result' = [result EXCEPT
                            !.sol = @ + sweepAmount.transferAmount]
            /\ walletSol' = walletSol - sweepAmount.lamports - LedgerFee
            /\ thrownBy' = thrownBy
       ELSE /\ Throw("sweep")
            /\ UNCHANGED <<result, walletSol>>
    /\ UNCHANGED <<cvars, wvars, mvars, bvars, evars, lookups, opts, assets,
                   filtered, di, transferred, stepErrors, closeAcc, atas,
                   sweepAmount>>

\* final balance query, summary and result file
Finalize(balOk, writeOk) ==
    /\ dpc = "final"
    /\ IF ~balOk
       THEN Throw("final") /\ UNCHANGED result
       ELSE /\ result' = [result EXCEPT !.finalBalance = walletSol]
            /\ IF ~writeOk
               THEN Throw("write")
               ELSE dpc' = "returned" /\ thrownBy' = thrownBy
    /\ UNCHANGED <<cvars, wvars, mvars, bvars, evars, lookups, opts, assets,
                   filtered, di, transferred, stepErrors, closeAcc, calls,
                   walletSol, atas, sweepAmount>>

\* no engine run: the drain is invoked on its own
EngineIdle ==
    /\ csv = <<>>
    /\ disk = Absent
    /\ pc = "idle"
    /\ variant = "sol"
    /\ batchSize = 1
    /\ recipients = <<>>
    /\ pending = <<>>
    /\ batchNo = 0
    /\ k = 0
    /\ report = "none"
    /\ ledger = [i \in 1..MaxRecords |-> FALSE]
    /\ runSubs = <<>>
    /\ outcomes = <<>>
    /\ loadedDone = {}

DrainInit ==
    EngineIdle /\ DrainIdle /\ BatchIdle /\ ManyIdle /\ ConvIdle /\ UnwrapIdle

DrainInvoke ==
    /\ dpc = "idle"
    /\ \E keyOk \in BOOLEAN, discoverOk \in BOOLEAN, sol \in SolBalances,
       chain \in Wallets, failing \in {{}, {"M2"}}, o \in DrainOptions :
       DrainStart(keyOk, discoverOk, sol, chain, failing, o)

Unwrap == dpc = "unwrap" /\ \E ok \in BOOLEAN : UnwrapStep(ok)

Preflight ==
    \/ dpc = "preflight" /\ \E balOk \in BOOLEAN : TokensPreflight(balOk)
    \/ /\ dpc = "lookups"
       /\ \E mint \in lookups, ok \in BOOLEAN, needsATA \in BOOLEAN :
             LookupAnswer(mint, ok, needsATA)
    \/ PreflightDecide

TransferToken == dpc = "tokens" /\ \E ok \in BOOLEAN : TokenStep(ok)

CloseAccount == dpc = "close" /\ \E ok \in BOOLEAN : CloseStep(ok)

Sweep ==
    \/ /\ dpc = "sweep"
       /\ \E balOk \in BOOLEAN, hashOk \in BOOLEAN, fee \in FeeResponses,
             lost \in 0..1 :
             SweepPrepare(balOk, hashOk, fee, lost)
    \/ /\ dpc = "sweepSend"
       /\ \E ok \in BOOLEAN : SweepSend(ok)

Finish ==
    /\ dpc = "final"
    /\ \E balOk \in BOOLEAN, writeOk \in BOOLEAN : Finalize(balOk, writeOk)

DrainNext ==
    \/ DrainInvoke
    \/ Unwrap
    \/ Preflight
    \/ TransferToken
    \/ CloseAccount
    \/ Sweep
    \/ Finish

DrainSpec == DrainInit /\ [][DrainNext]_vars

----------------------------------------------------------------------------
(***************************************************************************)
(* Properties of the wallet drain orchestrator.                            *)
(***************************************************************************)
Range(f) == {f[i] : i \in DOMAIN f}

\* the positions in calls of the failed calls of a kind
FailedCalls(kind) ==
    {i \in 1..Len(calls) : calls[i].kind = kind /\ ~calls[i].ok}

\* the errors of a kind recorded so far, in the result or still local to
\* the step that is running
RecordedErrors(kind) ==
    {i \in 1..Len(result.errors \o stepErrors) :
        (result.errors \o stepErrors)[i].kind = kind}

\* the mints of the calls of a kind, in the order they were issued
CallMints(kind) ==
    LET sel == SelectSeq(calls, LAMBDA c : c.kind = kind)
    IN [i \in 1..Len(sel) |-> sel[i].mint]

MintsOf(accs) == [i \in 1..Len(accs) |-> accs[i].mint]

\* C8: a dry run issues no ledger-mutating call and leaves the wallet as it
\* found it; once the key is loaded and discovery has answered it returns
\* (also when keepSol exceeds the balance) the synthetic result: success,
\* no transfers, no closed accounts, no reclaimed rent, no errors, and the
\* discovered balance as final balance.
C8_DryRunIsNoOp ==
    opts.dryRun =>
       /\ calls = <<>>
       /\ dpc \in {"returned", "thrown"}
       /\ dpc = "thrown" => thrownBy \in {"key", "discover"}
       /\ dpc = "returned" =>
             /\ result = [success |-> TRUE, sol |-> 0, tokens |-> <<>>,
                          closedAccounts |-> 0, reclaimedRent |-> 0,
                          finalBalance |-> assets.solBalance, errors |-> <<>>]
             /\ walletSol = assets.solBalance

C8_Witness ==
    /\ opts.dryRun
    /\ dpc = "returned"
    /\ Len(filtered) >= 2
    /\ opts.keepSol > assets.solBalance
    /\ result.finalBalance = assets.solBalance

\* the token-transfer step is over
TokensOver ==
    \/ dpc \in {"close", "sweep", "sweepSend", "final", "returned"}
    \/ dpc = "thrown" /\ thrownBy \in {"sweepQuery", "sweep", "final", "write"}

\* C9 as stated: once a per-mint transfer has failed the invocation still
\* returns a DrainResult, it does not throw.
C9_FailedTransferStillReturns ==
    FailedCalls("transfer") # {} => dpc # "thrown"

\* C9 amended: a failed per-mint transfer is recorded with its mint in the
\* error list and the remaining mints are still attempted; the invocation
\* then returns a result with success = true unless a later step (sweep
\* query, sweep submission, final balance query, result file) throws.
C9_FailedTransferRecordedAndLoopGoesOn ==
    /\ \A i \in FailedCalls("transfer") :
          Err("transfer", calls[i].mint) \in
             Range(result.errors) \cup Range(stepErrors)
    /\ (TokensOver /\ ~opts.dryRun
          /\ Err("preflight", "none") \notin Range(result.errors)) =>
          CallMints("transfer") = MintsOf(nonWsolAccounts(filtered))
    /\ (dpc = "returned" /\ FailedCalls("transfer") # {}) =>
          /\ result.success
          /\ \A i \in FailedCalls("transfer") :
                Err("transfer", calls[i].mint) \in Range(result.errors)
    /\ (dpc = "thrown" /\ FailedCalls("transfer") # {}) =>
          thrownBy \in {"sweepQuery", "sweep", "final", "write"}

C9_Witness ==
    /\ dpc = "returned"
    /\ result.success
    /\ \E i, j \in 1..Len(calls) :
          /\ i < j
          /\ calls[i] = [kind |-> "transfer", mint |-> "M1", ok |-> FALSE]
          /\ calls[j] = [kind |-> "transfer", mint |-> "M2", ok |-> TRUE]
    /\ Err("transfer", "M1") \in Range(result.errors)

\* C10 as stated: the invocation throws only when the key cannot be loaded
\* or when keepSol exceeds the discovered balance with dry-run off.
C10_ThrowsOnlyForKeyOrKeepSol ==
    dpc = "thrown" => thrownBy \in {"key", "keepSol"}

\* C10 amended: a failed unwrap, per-mint transfer or account close is
\* appended to the error list and the drain goes on with the next item and
\* step; the invocation throws when the key cannot be loaded, a discovery
\* query fails, keepSol exceeds the discovered balance with dry-run off, a
\* query of the token pre-flight fails, the sweep's queries or its
\* submission fail, or the final balance query or result file fails.
C10_PerItemFailuresRecordedOthersThrown ==
    /\ \A kind \in {"unwrap", "transfer", "close"} :
          Cardinality(FailedCalls(kind)) = Cardinality(RecordedErrors(kind))
    /\ thrownBy = "keepSol" =>
          ~opts.dryRun /\ opts.keepSol > assets.solBalance
    /\ thrownBy = "sweep" =>
          /\ calls # <<>>
          /\ calls[Len(calls)].kind = "sweep"
          /\ ~calls[Len(calls)].ok
    /\ (TokensOver /\ ~opts.dryRun) =>
          CallMints("unwrap") = MintsOf(wsolAccounts(filtered))
    /\ (dpc = "returned" /\ ~opts.dryRun) =>
          /\ Cardinality(RecordedErrors("unwrap")
                \cup RecordedErrors("transfer") \cup RecordedErrors("close")
                \cup RecordedErrors("preflight")) = Len(result.errors)
          /\ opts.closeAccounts /\ opts.reclaimRent =>
                CallMints("close") = MintsOf(transferred)

C10_Witness ==
    /\ dpc = "returned"
    /\ FailedCalls("unwrap") # {}
    /\ FailedCalls("transfer") # {}
    /\ FailedCalls("close") # {}
    /\ Len(result.errors) = 3


\* the close step is over
ClosesOver ==
    \/ dpc \in {"sweep", "sweepSend", "final", "returned"}
    \/ dpc = "thrown" /\ thrownBy \in {"sweepQuery", "sweep", "final", "write"}

\* the mints whose transfer succeeded, in the order of the transfers
TransferredMints ==
    LET sel == SelectSeq(calls, LAMBDA c : c.kind = "transfer" /\ c.ok)
    IN [i \in 1..Len(sel) |-> sel[i].mint]

\* C11: a close is submitted only for a holding whose transfer succeeded
\* earlier in the same invocation; with closing enabled every holding so
\* transferred gets its close, whether or not an earlier close failed.
C11_ClosesFollowSuccessfulTransfers ==
    /\ \A i \in 1..Len(calls) :
          calls[i].kind = "close" =>
             \E j \in 1..(i - 1) :
                calls[j] = [kind |-> "transfer", mint |-> calls[i].mint,
                            ok |-> TRUE]
    /\ (ClosesOver /\ ~opts.dryRun) =>
          CallMints("close") =
             IF opts.closeAccounts /\ opts.reclaimRent
             THEN TransferredMints ELSE <<>>

C11_Witness ==
    /\ dpc = "returned"
    /\ opts.closeAccounts /\ opts.reclaimRent
    /\ \E i, j \in 1..Len(calls) :
          /\ i < j
          /\ calls[i] = [kind |-> "close", mint |-> "M1", ok |-> FALSE]
          /\ calls[j] = [kind |-> "close", mint |-> "M2", ok |-> TRUE]
    /\ result.closedAccounts = 1


\* the holding passes every filter that is present
PassesFilters(h) ==
    /\ opts.tokens = {} \/ h.mint \in opts.tokens
    /\ h.mint \notin opts.excludeTokens
    /\ opts.minBalance = 0 \/ BalanceAtLeast(h, opts.minBalance)

\* the invocation got past discovery and the keepSol check
Discovered ==
    /\ dpc # "idle"
    /\ ~(dpc = "thrown" /\ thrownBy \in {"key", "discover", "keepSol"})

\* C12: a holding removed by the include list, the exclude list or the
\* minimum-balance filter is neither unwrapped, transferred nor closed; the
\* working list is the discovered list minus exactly those holdings, so an
\* absent filter removes nothing.
C12_FilteredHoldingsUntouched ==
    Discovered =>
       /\ \A i \in 1..Len(calls) :
             calls[i].kind \in {"unwrap", "transfer", "close"} =>
                \E n \in 1..Len(assets.tokenAccounts) :
                   /\ assets.tokenAccounts[n].mint = calls[i].mint
                   /\ PassesFilters(assets.tokenAccounts[n])
       /\ filtered = SelectSeq(assets.tokenAccounts, PassesFilters)
       /\ (opts.tokens = {} /\ opts.excludeTokens = {} /\ opts.minBalance = 0)
             => filtered = assets.tokenAccounts

C12_Witness ==
    /\ dpc = "returned"
    /\ opts.minBalance = 1000
    /\ opts.tokens = {}
    /\ opts.excludeTokens = {}
    /\ \E n \in 1..Len(assets.tokenAccounts) :
          /\ assets.tokenAccounts[n].mint = "M2"
          /\ assets.tokenAccounts[n].amount = 500
    /\ \A i \in 1..Len(calls) : calls[i].mint # "M2"
    /\ \E i, j \in 1..Len(calls) :
          /\ calls[i] = [kind |-> "transfer", mint |-> "M1", ok |-> TRUE]
          /\ calls[j] = [kind |-> "close", mint |-> "M1", ok |-> TRUE]


----------------------------------------------------------------------------
(***************************************************************************)
(* The batch drain coordinator.  A file is a sequence of lines, a line the *)
(* sequence of its comma-separated fields, a field a record [t, n, v].     *)
(***************************************************************************)
MaxPairs == 3

\* 0.001 SOL, the keepSol the coordinator passes when none was given
BatchKeepSolDefault == 1000000

Field(t, n, v) == [t |-> t, n |-> n, v |-> v]
Blank == Field("blank", 0, 0)
\* the header word "address", and header or label text without it
AddressWord == Field("address", 0, 0)
Word(n) == Field("word", n, 0)
SrcAddress(i) == Field("src", i, 0)
\* the secret of wallet i; v tells two secret values apart
Secret(i, v) == Field("key", i, v)
DstAddress(i) == Field("dst", i, 0)

\* address,base58,array
SourceHeader == <<AddressWord, Word(1), Word(2)>>
SourceRow(i, hasKey, v) ==
    <<SrcAddress(i), IF hasKey THEN Secret(i, v) ELSE Blank, Word(2)>>

\* source files: an optional header, up to MaxPairs rows, at most one of
\* them without a secret
SourceFiles ==
    UNION { UNION { { h \o [i \in 1..n |-> SourceRow(i, i \notin noKey, v)] :
                        h \in {<<>>, <<SourceHeader>>}, v \in 1..2 } :
                    noKey \in {S \in SUBSET (1..n) : Cardinality(S) <= 1} } :
            n \in 0..MaxPairs }

DestHeader(delimited) ==
    IF delimited THEN <<Word(4), Word(3)>> ELSE <<Word(4)>>
DestRow(i, delimited) ==
    IF delimited THEN <<DstAddress(i), Word(3)>> ELSE <<DstAddress(i)>>

\* destination files: one address per line or delimited, optional header
DestFiles ==
    UNION { { h \o [i \in 1..n |-> DestRow(i, delimited)] :
                h \in {<<>>, <<DestHeader(delimited)>>} } :
            n \in 0..MaxPairs, delimited \in BOOLEAN }

Allowlists == {{}, {0, 2}, {1, MaxPairs}}

KeepSolInputs ==
    {[given |-> FALSE, value |-> 0], [given |-> TRUE, value |-> 0]}

\* lines[0].toLowerCase().includes('address')
IncludesAddress(line) == \E j \in 1..Len(line) : line[j].t = "address"

\* fetchAddress and fetchBs58Key both return: two commas, and a non-empty
\* text before the first and between the first two
Parseable(line) ==
    /\ Len(line) >= 2
    /\ line[1] # Blank
    /\ Len(line) >= 3
    /\ line[2] # Blank

parseWalletRecord(line) == [address |-> line[1], base58Key |-> line[2]]

\* a line that fails to parse is warned about and left out
readWalletsFromCSV(lines) ==
    LET start == IF Len(lines) > 0 /\ IncludesAddress(lines[1]) THEN 2 ELSE 1
        good == SelectSeq(SubSeq(lines, start, Len(lines)), Parseable)
    IN [i \in 1..Len(good) |-> parseWalletRecord(good[i])]

\* the first column of every record (first line with a comma) or the
\* text of every line (first line without one, the lines then have a single
\* field); every line of the file is read, the first one included
parseDestinationAddresses(lines) ==
    LET firsts == [i \in 1..Len(lines) |-> lines[i][1]]
    IN SelectSeq(firsts, LAMBDA a : a # Blank)


\* a loop that ignores the allowlist
AllowlistSkips_Never(i, L) == FALSE

\* indicesToProcess.length > 0 && !indicesToProcess.includes(i)
AllowlistSkips(i, L) == L # {} /\ i \notin L

\* Math.min(sourceWallets.length, destinationAddresses.length)
operationCount == Min(Len(sourceWallets), Len(destinationAddresses))

\* a failed-pair record that carries the wallet's key
FailedOperation_WithKey(i, w, to, reason, ts) ==
    [index |-> i, fromAddress |-> w.base58Key, toAddress |-> to,
     reason |-> reason, timestamp |-> ts]

\* the FailedOperation pushed to failedOps
FailedOperation(i, w, to, reason, ts) ==
    [index |-> i, fromAddress |-> w.address, toAddress |-> to,
     reason |-> reason, timestamp |-> ts]

\* how one executeDrainWallet call ends: it returns, throws an error whose
\* message mentions insufficient funds or rent, or throws another error
DrainOutcomes == {"returned", "throwFunds", "throwOther"}

NoKeyReason == "No private key available"

\* the failure reason derived from the thrown error's message
FailureReason(outcome) ==
    IF outcome = "throwFunds"
    THEN "Insufficient SOL for transaction fees or rent"
    ELSE "Error: drain failed"

\* adjustedOptions.keepSol
adjustedKeepSol(ks) == IF ks.given THEN ks.value ELSE BatchKeepSolDefault

\* executeBatchDrainWallet up to its loop: both files are read
BatchStart(src, dst, L, ks) ==
    /\ bpc = "idle"
    /\ srcLines' = src
    /\ dstLines' = dst
    /\ indices' = L
    /\ keepSolOpt' = ks
    /\ sourceWallets' = readWalletsFromCSV(src)
    /\ IF dst = <<>>
       THEN /\ bpc' = "thrown"
            /\ bthrownBy' = "destinations"
            /\ destinationAddresses' = <<>>
       ELSE /\ destinationAddresses' = parseDestinationAddresses(dst)
            /\ bthrownBy' = bthrownBy
            /\ bpc' = IF Min(Len(readWalletsFromCSV(src)),
                             Len(parseDestinationAddresses(dst))) = 0
                      THEN "summary" ELSE "loop"
    /\ UNCHANGED <<cvars, wvars, mvars, evars, dvars, bi, successCount,
                   failCount, failedOps, invocations, failedFile, statusLine,
                   rerunOf>>

\* a loop that gives up at the first pair whose drain throws
IndexAfterFailedPair_Break(i, n) == n

\* the catch block of the loop body falls through to the next iteration:
\* the index the loop continues at
IndexAfterFailedPair(i, n) == i + 1

\* one iteration of the loop over the pairs
BatchPairStep(outcome) ==
    /\ bpc = "loop"
    /\ LET w == sourceWallets[bi + 1]
           to == destinationAddresses[bi + 1]
           threw == /\ ~AllowlistSkips(bi, indices)
                    /\ w.base58Key # Blank
                    /\ outcome # "returned"
           next == IF threw THEN IndexAfterFailedPair(bi, operationCount)
                   ELSE bi + 1
       IN /\ bi' = next
          /\ bpc' = IF next < operationCount THEN "loop" ELSE "summary"
    /\ LET w == sourceWallets[bi + 1]
           to == destinationAddresses[bi + 1]
       IN IF AllowlistSkips(bi, indices)
          THEN UNCHANGED <<successCount, failCount, failedOps, invocations>>
          ELSE IF w.base58Key = Blank
          THEN /\ failedOps' = Append(failedOps,
                                 FailedOperation(bi, w, to, NoKeyReason, bi))
               /\ failCount' = failCount + 1
               /\ UNCHANGED <<successCount, invocations>>
          ELSE /\ invocations' = Append(invocations,
                     [index |-> bi, key |-> w.base58Key, to |-> to,
                      keepSol |-> adjustedKeepSol(keepSolOpt),
                      outcome |-> outcome])
               /\ IF outcome = "returned"
                  THEN /\ successCount' = successCount + 1
                       /\ UNCHANGED <<failCount, failedOps>>
                  ELSE /\ failedOps' = Append(failedOps,
                             FailedOperation(bi, w, to,
                                             FailureReason(outcome), bi))
                       /\ failCount' = failCount + 1
                       /\ UNCHANGED successCount
    /\ UNCHANGED <<cvars, wvars, mvars, evars, dvars, srcLines, dstLines,
                   indices, keepSolOpt, sourceWallets, destinationAddresses,
                   failedFile, statusLine, bthrownBy, rerunOf>>

\* the closing status line
StatusLine(ok, failed, total) ==
    IF failed > 0 /\ ok > 0 THEN "partial"
    ELSE IF ok = total THEN "allSucceeded"
    ELSE "allFailed"

\* summary, failed-pairs file, status line
BatchFinish(writeOk) ==
    /\ bpc = "summary"
    /\ IF failedOps # <<>> /\ ~writeOk
       THEN /\ bpc' = "thrown"
            /\ bthrownBy' = "write"
            /\ UNCHANGED <<failedFile, statusLine>>
       ELSE /\ failedFile' = failedOps
            /\ statusLine' = StatusLine(successCount, failCount,
                                        operationCount)
            /\ bpc' = "done"
            /\ bthrownBy' = bthrownBy
    /\ UNCHANGED <<cvars, wvars, mvars, evars, dvars, srcLines, dstLines,
                   indices, keepSolOpt, sourceWallets, destinationAddresses,
                   bi, successCount, failCount, failedOps, invocations,
                   rerunOf>>

\* the index column of the failed-pairs file: the number in decimal digits
RECURSIVE DecimalText(_)
DecimalText(n) ==
    IF n < 10 THEN <<n>> ELSE DecimalText(n \div 10) \o <<n % 10>>

\* parseInt(text, 10) on a text of decimal digits
RECURSIVE parseInt10(_)
parseInt10(text) ==
    IF text = <<>> THEN 0
    ELSE 10 * parseInt10(SubSeq(text, 1, Len(text) - 1)) + text[Len(text)]

\* an index list taken from the file as if its rows were numbered from 1
IndicesOption_OneBased(file) ==
    {parseInt10(DecimalText(file[j].index)) + 1 : j \in 1..Len(file)}

\* --indices built from the index column of a failed-pairs file:
\* options.indices.split(',').map(i => parseInt(i.trim(), 10))
IndicesOption(file) ==
    {parseInt10(DecimalText(file[j].index)) : j \in 1..Len(file)}

\* the command is run again on the same two files, with --indices taken
\* from the failed-pairs file the finished run wrote
BatchRerun ==
    /\ bpc = "done"
    /\ failedFile # <<>>
    /\ rerunOf = <<>>
    /\ rerunOf' = failedFile
    /\ indices' = IndicesOption(failedFile)
    /\ sourceWallets' = readWalletsFromCSV(srcLines)
    /\ destinationAddresses' = parseDestinationAddresses(dstLines)
    /\ bi' = 0
    /\ successCount' = 0
    /\ failCount' = 0
    /\ failedOps' = <<>>
    /\ invocations' = <<>>
    /\ bpc' = IF Min(Len(readWalletsFromCSV(srcLines)),
                     Len(parseDestinationAddresses(dstLines))) = 0
              THEN "summary" ELSE "loop"
    /\ UNCHANGED <<cvars, wvars, mvars, evars, dvars, srcLines, dstLines,
                   keepSolOpt, failedFile, statusLine, bthrownBy>>

BatchInit ==
    EngineIdle /\ DrainIdle /\ BatchIdle /\ ManyIdle /\ ConvIdle /\ UnwrapIdle

BatchInvoke ==
    /\ bpc = "idle"
    /\ \E src \in SourceFiles, dst \in DestFiles, L \in Allowlists,
          ks \in KeepSolInputs :
          BatchStart(src, dst, L, ks)

BatchPair == bpc = "loop" /\ \E outcome \in DrainOutcomes : BatchPairStep(outcome)

BatchEnd == bpc = "summary" /\ \E writeOk \in BOOLEAN : BatchFinish(writeOk)

BatchNext ==
    \/ BatchInvoke
    \/ BatchPair
    \/ BatchEnd

BatchSpec == BatchInit /\ [][BatchNext]_vars

\* the coordinator with a second run on the failed pairs of the first
RerunNext ==
    \/ BatchNext
    \/ BatchRerun

RerunSpec == BatchInit /\ [][RerunNext]_vars


----------------------------------------------------------------------------
(***************************************************************************)
(* Properties of the batch drain coordinator.                              *)
(***************************************************************************)
\* the data rows of a file: the lines that do not start with header text
DataRows(lines) ==
    SelectSeq(lines, LAMBDA l : l[1].t \notin {"address", "word"})

\* C13: every drain the coordinator invokes for position i gets the secret
\* of the i-th data row of the source-wallets file and the address of the
\* i-th data row of the destination file, a header row not being counted.
C13_PairsByDataRowPosition ==
    \A n \in 1..Len(invocations) :
       LET i == invocations[n].index
       IN /\ i + 1 <= Len(DataRows(srcLines))
          /\ i + 1 <= Len(DataRows(dstLines))
          /\ invocations[n].key = DataRows(srcLines)[i + 1][2]
          /\ invocations[n].to = DataRows(dstLines)[i + 1][1]


\* the positions the coordinator attempted: a drain was invoked or a
\* failed-pair record was made
Attempted ==
    {invocations[n].index : n \in 1..Len(invocations)}
       \cup {failedOps[n].index : n \in 1..Len(failedOps)}

\* the loop over the pairs is over
LoopOver ==
    \/ bpc \in {"summary", "done"}
    \/ bpc = "thrown" /\ bthrownBy = "write"

\* C14: with a non-empty allowlist exactly the pairs at the listed positions
\* below operationCount are attempted, each once; no other position adds to
\* the success count or gets a failed-pair record.
C14_AllowlistSelectsAttemptedPairs ==
    indices # {} =>
       /\ Attempted \subseteq (indices \cap (0..(operationCount - 1)))
       /\ LoopOver => Attempted = indices \cap (0..(operationCount - 1))
       /\ successCount + failCount = Cardinality(Attempted)
       /\ failCount = Len(failedOps)
       /\ successCount =
             Cardinality({n \in 1..Len(invocations) :
                             invocations[n].outcome = "returned"})

C14_Witness ==
    /\ bpc = "done"
    /\ indices = {0, 2}
    /\ operationCount = 3
    /\ Attempted = {0, 2}
    /\ successCount = 1
    /\ Len(failedOps) = 1


\* the failed-pair records made for position i with the no-key reason
NoKeyRecords(i) ==
    {n \in 1..Len(failedOps) :
        failedOps[n].index = i /\ failedOps[n].reason = NoKeyReason}

\* C15: a source row with an address but no secret, at a position the run
\* covers, gets exactly one failed-pair record with its index, its address
\* and the no-private-key reason, and no drain is invoked with its index
\* unless another row holds that position.
C15_KeylessRowGetsOneFailedPairRecord ==
    LoopOver =>
       \A p \in 1..Len(DataRows(srcLines)) :
          (/\ DataRows(srcLines)[p][1] # Blank
           /\ DataRows(srcLines)[p][2] = Blank
           /\ p <= Len(DataRows(dstLines))
           /\ indices = {} \/ (p - 1) \in indices) =>
             /\ Cardinality(NoKeyRecords(p - 1)) = 1
             /\ \A n \in NoKeyRecords(p - 1) :
                   failedOps[n].fromAddress = DataRows(srcLines)[p][1]


\* the positions the run covers
Selected ==
    IF indices = {} THEN 0..(operationCount - 1)
    ELSE indices \cap (0..(operationCount - 1))

\* C16: a drain that throws costs its pair exactly one failed-pair record
\* with the pair's index; the remaining pairs are still attempted and the
\* coordinator does not rethrow (it throws only when the destination file
\* cannot be parsed or the failed-pairs file cannot be written); the full
\* list of records is written to the failed-pairs file after the last pair
\* (until then the only such file is the one of the run before, if any).
C16_ThrowingPairsRecordedNotRethrown ==
    /\ \A n \in 1..Len(invocations) :
          invocations[n].outcome # "returned" =>
             /\ Cardinality({r \in 1..Len(failedOps) :
                   failedOps[r].index = invocations[n].index}) = 1
             /\ \E r \in 1..Len(failedOps) :
                   /\ failedOps[r].index = invocations[n].index
                   /\ failedOps[r].toAddress = invocations[n].to
                   /\ failedOps[r].reason = FailureReason(invocations[n].outcome)
    /\ bpc = "thrown" => bthrownBy \in {"destinations", "write"}
    /\ LoopOver => Attempted = Selected
    /\ bpc = "done" => failedFile = failedOps
    /\ bpc # "done" => failedFile = rerunOf

C16_Witness ==
    /\ bpc = "done"
    /\ Len(invocations) = 3
    /\ invocations[1].outcome = "throwOther"
    /\ invocations[2].outcome = "returned"
    /\ invocations[3].outcome = "throwFunds"
    /\ Len(failedFile) = 2
    /\ failedFile[1].index = 0
    /\ failedFile[2].index = 2


\* a file with the value of every secret blanked out
EraseSecrets(lines) ==
    [i \in 1..Len(lines) |->
        [j \in 1..Len(lines[i]) |->
            IF lines[i][j].t = "key"
            THEN Field("key", lines[i][j].n, 0) ELSE lines[i][j]]]

FailureReasons ==
    {NoKeyReason, FailureReason("throwFunds"), FailureReason("throwOther")}

\* the record depends on the positions, the addresses and the outcome only
SecretFree(r) ==
    LET public == readWalletsFromCSV(EraseSecrets(srcLines))
    IN /\ r.index \in 0..(operationCount - 1)
       /\ r.fromAddress = public[r.index + 1].address
       /\ r.fromAddress.t # "key"
       /\ r.toAddress = destinationAddresses[r.index + 1]
       /\ r.toAddress.t # "key"
       /\ r.reason \in FailureReasons
       /\ r.timestamp \in 0..MaxPairs

----------------------------------------------------------------------------
(***************************************************************************)
(* Properties of the sweep step and of the keepSol pre-flight.              *)
(***************************************************************************)
\* the fee estimates the sweep can work with
FeeEstimates == {estimatedFee(f) : f \in FeeResponses}

\* the sweep step decides: it goes on to the submission or skips it
SweepDecides == dpc = "sweep" /\ dpc' \in {"final", "sweepSend"}

SweepCall(ok) == [kind |-> "sweep", mint |-> "SOL", ok |-> ok]

SweepCalls == {i \in 1..Len(calls) : calls[i].kind = "sweep"}

\* C18 as stated: with available = currentBalance - keepAmount -
\* estimatedFee - safetyMargin the sweep submits nothing when available is
\* at or below the minimum practical transfer amount, and otherwise submits
\* a native transfer of available.
C18_SweepSkipsAtOrBelowThreshold ==
    [][SweepDecides =>
         \E e \in FeeEstimates :
            LET available == walletSol - opts.keepSol - e - SweepSafetyBuffer
            IN IF available <= MinTransferAmount
               THEN dpc' = "final"
               ELSE /\ dpc' = "sweepSend"
                    /\ sweepAmount'.lamports = available]_vars

\* C18 amended: the sweep submits nothing when the balance is below the
\* hard minimum of 0.002 SOL or when available is zero, negative or below
\* the minimum practical amount; when available is above that amount it
\* submits exactly one native transfer of available rounded down to whole
\* lamports, which in double arithmetic is available or one lamport less;
\* when available equals that amount it does the one or the other.
C18_SweepSubmitsAvailableOrSkips ==
    /\ [][SweepDecides =>
            \E e \in FeeEstimates :
               LET available == walletSol - opts.keepSol - e
                                   - SweepSafetyBuffer
               IN /\ calls' = calls
                  /\ (walletSol < MinRequiredSol
                        \/ available < MinTransferAmount) => dpc' = "final"
                  /\ (walletSol >= MinRequiredSol
                        /\ available > MinTransferAmount) =>
                        dpc' = "sweepSend"
                  /\ dpc' = "sweepSend" =>
                        /\ sweepAmount'.transferAmount = available
                        /\ sweepAmount'.lamports \in
                              {available - 1, available}]_vars
    /\ [][(dpc = "sweepSend" /\ dpc' # dpc) =>
            \E ok \in BOOLEAN :
               /\ calls' = Append(calls, SweepCall(ok))
               /\ ok => walletSol' =
                           walletSol - sweepAmount.lamports - LedgerFee]_vars
    /\ [](Cardinality(SweepCalls) <= 1)
    /\ [](dpc = "sweepSend" => sweepAmount.lamports >= MinTransferAmount)

C18_Witness ==
    /\ dpc = "returned"
    /\ calls = <<SweepCall(TRUE)>>
    /\ sweepAmount.lamports = MinTransferAmount
    /\ walletSol = assets.solBalance - MinTransferAmount - LedgerFee
    /\ opts.keepSol = 1994000

\* the sweep has been submitted and confirmed
SweepConfirmed == calls # <<>> /\ calls[Len(calls)] = SweepCall(TRUE)

\* C19: the amount of a submitted sweep is at most currentBalance - keepSol
\* - estimatedFee, and after a confirmed sweep (the ledger's fee is within
\* the estimate) the source wallet holds at least keepSol.
C19_SweepLeavesKeepSol ==
    /\ [][(dpc = "sweep" /\ dpc' = "sweepSend") =>
            \E e \in FeeEstimates :
               /\ LedgerFee <= e
               /\ sweepAmount'.lamports <= walletSol - opts.keepSol - e]_vars
    /\ [](SweepConfirmed => walletSol >= opts.keepSol)
    /\ []((SweepConfirmed /\ dpc = "returned") =>
             result.finalBalance >= opts.keepSol)

C19_Witness ==
    /\ dpc = "returned"
    /\ SweepConfirmed
    /\ opts.keepSol = 5000000
    /\ sweepAmount.lamports > 0
    /\ result.finalBalance >= 5000000
    /\ result.finalBalance < assets.solBalance

\* C20: with dry-run off and keepSol above the discovered balance the
\* invocation throws, and no unwrap, transfer, close or sweep has been
\* submitted.
C20_UnfeasibleKeepSolThrowsBeforeAnyCall ==
    /\ thrownBy = "keepSol" =>
          /\ dpc = "thrown"
          /\ calls = <<>>
          /\ walletSol = assets.solBalance
          /\ ~opts.dryRun
          /\ opts.keepSol > assets.solBalance
    /\ (Discovered /\ ~opts.dryRun /\ opts.keepSol > assets.solBalance) =>
          /\ dpc = "thrown"
          /\ thrownBy = "keepSol"
    /\ (~opts.dryRun /\ calls # <<>>) => opts.keepSol <= assets.solBalance

C20_Witness ==
    /\ dpc = "thrown"
    /\ thrownBy = "keepSol"
    /\ opts.keepSol = 5000000
    /\ assets.solBalance = 3000000
    /\ Len(assets.tokenAccounts) >= 2
    /\ calls = <<>>


----------------------------------------------------------------------------
(***************************************************************************)
(* Ledger calls in flight.                                                 *)
(***************************************************************************)
\* the ledger calls that have been issued and have not answered: the
\* submission of the batch loop and the destination-account queries of the
\* token pre-flight; every other call is awaited inside its step
InFlight == (IF pc = "inflight" THEN 1 ELSE 0) + Cardinality(lookups)

\* C21 as stated: at every point of a batch-transfer run or a drain
\* invocation at most one ledger call is in flight, the token pre-flight of
\* the drain included.
C21_AtMostOneLedgerCallInFlight == InFlight <= 1

\* C21 amended: the token pre-flight of the drain starts one
\* destination-account query per non-wrapped filtered holding and waits for
\* them together, so as many queries as there are such holdings can be in
\* flight; they are the only calls that overlap: while any of them is
\* outstanding no transfer, unwrap or close is submitted, and no step after
\* the pre-flight runs before all of them have answered.
C21_OnlyPreflightLookupsOverlap ==
    /\ [](/\ Cardinality(lookups) <= Len(nonWsolAccounts(filtered))
          /\ lookups # {} => dpc \in {"lookups", "thrown"})
    /\ [][(lookups # {} \/ lookups' # {}) => calls' = calls]_vars

C21_Witness ==
    /\ dpc = "lookups"
    /\ Cardinality(lookups) = 2
    /\ calls # <<>>


----------------------------------------------------------------------------
(***************************************************************************)
(* Batches of the pending list.                                            *)
(***************************************************************************)
\* batches no .. total - 1 one after the other
RECURSIVE BatchesFrom(_, _, _, _)
BatchesFrom(pend, size, no, total) ==
    IF no >= total THEN <<>>
    ELSE BatchOf(pend, no, size) \o BatchesFrom(pend, size, no + 1, total)

\* the batches that hold pending record i
BatchesHolding(i) ==
    {no \in 0..(totalBatches - 1) :
        \E j \in 1..Len(BatchOf(pending, no, batchSize)) :
           BatchOf(pending, no, batchSize)[j] = i}

\* C22: for every number n of pending records and every batch size b >= 1
\* the loop forms ceil(n / b) batches: the batch it works on is one of the
\* first ceil(n / b), it ends after batch ceil(n / b), none of these
\* batches is empty, each pending record is in exactly one of them and the
\* batches one after the other are the pending list.
C22_BatchesPartitionPending ==
    (pc \in {"loop", "inflight", "confirmed", "done"}) =>
       /\ batchSize >= 1
       /\ InRun => (batchNo < totalBatches /\ k \in 1..Len(CurrentBatch))
       /\ (pc = "done" /\ pending # <<>>) => batchNo + 1 = totalBatches
       /\ \A no \in 0..(totalBatches - 1) :
             BatchOf(pending, no, batchSize) # <<>>
       /\ \A j \in 1..Len(pending) :
             Cardinality(BatchesHolding(pending[j])) = 1
       /\ BatchesFrom(pending, batchSize, 0, totalBatches) = pending

C22_Witness ==
    /\ pc = "done"
    /\ Len(pending) = MaxRecords
    /\ batchSize = 2
    /\ batchNo + 1 = Ceil(MaxRecords, 2)
    /\ runSubs = pending


----------------------------------------------------------------------------
(***************************************************************************)
(* Start-up checks of the token engine.                                    *)
(***************************************************************************)
\* C23: when the sum of the amounts of the incomplete records exceeds the
\* token balance executeTokenTransfer queried, the run ends in its fatal
\* exit and submits nothing.
C23_InsufficientTokenBalanceSubmitsNothing ==
    [][(pc = "idle" /\ pc' # "idle") =>
         \A uiAmount \in TokenBalances :
            IncompleteSum(LoadWorkingSet(disk, csv)) > uiAmount =>
               \A b \in BatchInputs, keyOk \in BOOLEAN, mintOk \in BOOLEAN :
                  StartTokenTransfer(b, keyOk, mintOk, TRUE, uiAmount) =>
                     (pc' = "exited" /\ runSubs' = <<>>)]_vars


\* a --batch-size input that is not a number or not positive
BadBatchInput(b) == b.nan \/ b.val <= 0

\* C24 as stated: with a batch-size input that is non-positive or not a
\* number, both engines go on with batch size 1; the input never makes a
\* run end in a rejection.
C24_BadBatchSizeRunsWithOne ==
    [][(pc = "idle" /\ pc' # "idle") =>
         \A b \in {x \in BatchInputs : BadBatchInput(x)} :
            (\/ \E keyOk \in BOOLEAN, balance \in {0, MaxBalance} :
                   StartTransfer(b, keyOk, balance)
             \/ \E keyOk \in BOOLEAN, mintOk \in BOOLEAN,
                   tokenAccountOk \in BOOLEAN, uiAmount \in TokenBalances :
                   StartTokenTransfer(b, keyOk, mintOk, tokenAccountOk,
                                      uiAmount))
            => /\ report' # "batchsize"
               /\ pc' # "exited" => batchSize' = 1]_vars

\* C24 amended: with such an input executeTransfer logs it and goes on
\* with batch size 1, and the input is never the reason of a rejection
\* there; executeTokenTransfer rejects the run with a fatal exit before it
\* loads a key or a record, submitting nothing and leaving the snapshot as
\* it is.  No other input is rejected for its batch size.
C24_BadBatchSizeOneOrTokenRejected ==
    /\ [][(pc = "idle" /\ pc' # "idle") =>
            LET bad == {x \in BatchInputs : BadBatchInput(x)}
            IN /\ variant' = "sol" =>
                     \/ /\ report' # "batchsize"
                        /\ pc' # "exited" => batchSize' = 1
                     \/ \A b \in bad, keyOk \in BOOLEAN,
                           balance \in {0, MaxBalance} :
                           ~StartTransfer(b, keyOk, balance)
               /\ variant' = "token" =>
                     \/ /\ pc' = "exited"
                        /\ report' = "batchsize"
                        /\ runSubs' = <<>>
                        /\ disk' = disk
                     \/ \A b \in bad, keyOk \in BOOLEAN, mintOk \in BOOLEAN,
                           tokenAccountOk \in BOOLEAN,
                           uiAmount \in TokenBalances :
                           ~StartTokenTransfer(b, keyOk, mintOk,
                                               tokenAccountOk, uiAmount)]_vars
    /\ [](report = "batchsize" => (variant = "token" /\ pc = "exited"))
    /\ [](InRun => batchSize \in 1..MaxBatch)

C24_Witness ==
    /\ pc = "exited"
    /\ variant = "token"
    /\ report = "batchsize"
    /\ csv # <<>>
    /\ disk.kind = "json"


----------------------------------------------------------------------------
(***************************************************************************)
(* Loading the recipients file.                                            *)
(***************************************************************************)
\* the recipients file has a row the validator refuses
HasRefusedRow == \E i \in 1..Len(csv) : ValidatorThrows(csv[i])

\* C25: when a row of the recipients file fails validation, every run that
\* loads the file ends in the fatal exit of the load: no row becomes a
\* record, nothing is submitted, for the valid rows before the bad one
\* either, and no snapshot is written.
C25_RefusedRowAbortsLoad ==
    HasRefusedRow =>
       /\ pc \in {"idle", "exited"}
       /\ pc = "exited" => report \in {"csv", "keypair", "mint", "batchsize"}
       /\ recipients = <<>>
       /\ runSubs = <<>>
       /\ disk = Absent
       /\ \A i \in 1..MaxRecords : ~ledger[i]

C25_Witness ==
    /\ pc = "exited"
    /\ report = "csv"
    /\ Len(csv) = MaxRecords
    /\ ~ValidatorThrows(csv[1])
    /\ ValidatorThrows(csv[2])
    /\ ~ValidatorThrows(csv[MaxRecords])

\* C26: every record accepted at load time has an amount greater than
\* zero; rows with a zero or negative amount are refused by the load.
C26_AcceptedAmountsPositive ==
    \A i \in 1..Len(recipients) : ParseFloat(recipients[i].amount) > 0


----------------------------------------------------------------------------
(***************************************************************************)
(* Failed submissions.                                                     *)
(***************************************************************************)
\* the submissions of the current run made for the record of submission j
AttemptsFor(j) == {n \in 1..Len(runSubs) : runSubs[n] = runSubs[j]}

\* C27: a submission that failed (a network error included) is made again
\* in the same run before the run gives up on that transfer: a record the
\* run has left behind after a failure was submitted at least twice.
C27_FailedSubmissionRetriedInRun ==
    \A j \in 1..Len(outcomes) :
       outcomes[j] = "failed" => Cardinality(AttemptsFor(j)) >= 2


----------------------------------------------------------------------------
(***************************************************************************)
(* The many-to-many transfer command (executeBatchTransfer).               *)
(***************************************************************************)
TransferHeader == <<"from", "to", "amount">>

\* lines of a transfer instructions file: the header, a transfer from a
\* wallet of the wallets file, one from an address that file does not
\* have, and one with an amount that is not positive
TransferLines == {TransferHeader, <<"W1", "X", "1">>, <<"W9", "X", "1">>,
                  <<"W1", "X", "0">>}

TransferFiles == UNION {[1..n -> TransferLines] : n \in 0..MaxLines}

\* the addresses of the wallets file (the keys of walletMap)
WalletAddresses == {"W1"}

\* lines[0].toLowerCase().includes('from')
IncludesFrom(line) == line[1] = "from"

\* isNaN(amount) || amount <= 0: the line is skipped with a warning
InvalidInstruction(line) == IsNaN(line[3]) \/ ParseFloat(line[3]) <= 0

parseTransferInstructions(lines) ==
    LET startIndex == IF lines # <<>> /\ IncludesFrom(lines[1]) THEN 2 ELSE 1
        data == SubSeq(lines, startIndex, Len(lines))
        good == SelectSeq(data, LAMBDA line : ~InvalidInstruction(line))
    IN [i \in 1..Len(good) |->
          [from |-> good[i][1], to |-> good[i][2],
           amount |-> ParseFloat(good[i][3])]]

TransferResult(ins, status) ==
    [from |-> ins.from, to |-> ins.to, amount |-> ins.amount,
     status |-> status]

\* the process is gone: nothing of the run is kept but the ledger and the
\* files
ManyForget ==
    /\ instructions' = <<>>
    /\ mi' = 0
    /\ results' = <<>>

\* executeBatchTransfer up to its loop: both files are read and parsed; no
\* file of an earlier run is looked for or read
ManyStart(readOk) ==
    /\ mpc = "idle"
    /\ runs < MaxRuns
    /\ runs' = runs + 1
    /\ IF ~readOk
       THEN mpc' = "thrown" /\ ManyForget
       ELSE /\ instructions' = parseTransferInstructions(transferLines)
            /\ mi' = 0
            /\ results' = <<>>
            /\ mpc' = IF parseTransferInstructions(transferLines) = <<>>
                      THEN "report" ELSE "loop"
    /\ UNCHANGED <<cvars, wvars, evars, dvars, bvars, transferLines, settled,
                   outFile>>

\* one pass of the loop: the sender is looked up, the transfer is submitted
\* and confirmed or fails, the result is pushed
ManyTransfer(ok) ==
    /\ mpc = "loop"
    /\ LET ins == instructions[mi + 1]
       IN IF ins.from \notin WalletAddresses
          THEN /\ results' = Append(results, TransferResult(ins, "failed"))
               /\ settled' = settled
          ELSE IF ok
          THEN /\ results' = Append(results, TransferResult(ins, "success"))
               /\ settled' = [settled EXCEPT ![mi + 1] = @ + 1]
          ELSE /\ results' = Append(results, TransferResult(ins, "failed"))
               /\ settled' = settled
    /\ mi' = mi + 1
    /\ mpc' = IF mi + 1 >= Len(instructions) THEN "report" ELSE "loop"
    /\ UNCHANGED <<cvars, wvars, evars, dvars, bvars, transferLines,
                   instructions, runs, outFile>>

\* the results table is printed and the results file is written
ManyReport(writeOk) ==
    /\ mpc = "report"
    /\ IF writeOk
       THEN mpc' = "done" /\ outFile' = results
       ELSE mpc' = "thrown" /\ outFile' = outFile
    /\ UNCHANGED <<cvars, wvars, evars, dvars, bvars, transferLines,
                   instructions, mi, results, settled, runs>>

\* the process ends after its summary or with the exception
ManyEnd ==
    /\ mpc \in {"done", "thrown"}
    /\ mpc' = "idle"
    /\ ManyForget
    /\ UNCHANGED <<cvars, wvars, evars, dvars, bvars, transferLines, settled,
                   runs, outFile>>

\* the process is interrupted during a run
ManyKill ==
    /\ mpc \in {"loop", "report"}
    /\ mpc' = "idle"
    /\ ManyForget
    /\ UNCHANGED <<cvars, wvars, evars, dvars, bvars, transferLines, settled,
                   runs, outFile>>

ManyInit ==
    /\ ConvIdle
    /\ UnwrapIdle
    /\ EngineIdle
    /\ DrainIdle
    /\ BatchIdle
    /\ mpc = "idle"
    /\ transferLines \in TransferFiles
    /\ instructions = <<>>
    /\ mi = 0
    /\ results = <<>>
    /\ settled = [i \in 1..MaxLines |-> 0]
    /\ runs = 0
    /\ outFile = <<>>

ManyInvoke == mpc = "idle" /\ \E readOk \in BOOLEAN : ManyStart(readOk)

ManySubmit == mpc = "loop" /\ \E ok \in BOOLEAN : ManyTransfer(ok)

ManySave == mpc = "report" /\ \E writeOk \in BOOLEAN : ManyReport(writeOk)

ManyNext ==
    \/ ManyInvoke
    \/ ManySubmit
    \/ ManySave
    \/ ManyEnd
    \/ ManyKill

ManySpec == ManyInit /\ [][ManyNext]_vars

\* C28: every batch operation, transfer-many2many included, can be
\* interrupted and run again so that the transfers completed before are
\* skipped and only failed or unattempted ones are submitted: over all the
\* runs on one instructions file no instruction is confirmed by the ledger
\* more than once.
C28_CompletedTransfersSkippedOnRerun ==
    \A i \in 1..Len(settled) : settled[i] <= 1


----------------------------------------------------------------------------
(***************************************************************************)
(* Re-running the batch drain on the failed pairs.                         *)
(***************************************************************************)
\* the pairs of a failed-pairs file: position, source, destination
FailedPairs(file) ==
    {<<file[j].index, file[j].fromAddress, file[j].toAddress>> :
        j \in 1..Len(file)}

\* the pairs the current run has attempted: those it called the drain for
\* and those it recorded as failed without a call
AttemptedPairs ==
    {<<invocations[j].index,
       sourceWallets[invocations[j].index + 1].address,
       invocations[j].to>> : j \in 1..Len(invocations)}
    \cup FailedPairs(failedOps)

\* C29: a run on the same two files whose index allowlist is the index
\* column of the failed-pairs file of the previous run attempts exactly
\* the pairs recorded in that file, each once, with the source and the
\* destination recorded there.
C29_RerunAttemptsExactlyTheFailedPairs ==
    (rerunOf # <<>> /\ bpc \in {"summary", "done", "thrown"}) =>
       /\ AttemptedPairs = FailedPairs(rerunOf)
       /\ Len(invocations) = Len(rerunOf)
       /\ \A j \in 1..Len(invocations) :
             invocations[j].key =
                sourceWallets[invocations[j].index + 1].base58Key

C29_Witness ==
    /\ rerunOf # <<>>
    /\ bpc = "done"
    /\ Len(rerunOf) = 2
    /\ Len(sourceWallets) = MaxPairs
    /\ rerunOf[1].index = 0
    /\ rerunOf[2].index = 2
    /\ successCount = 1
    /\ failCount = 1


----------------------------------------------------------------------------
(***************************************************************************)
(* Matching a confirmed transfer to its record.                            *)
(***************************************************************************)
\* the first record with the given address and amount that is not yet
\* complete; 0 when there is none
RECURSIVE FirstIncompleteMatch(_, _, _, _)
FirstIncompleteMatch(list, i, a, m) ==
    IF i > Len(list) THEN 0
    ELSE IF list[i].address = a /\ list[i].amount = m /\ ~list[i].transferred
    THEN i
    ELSE FirstIncompleteMatch(list, i + 1, a, m)

\* the submissions of the run that were confirmed and have been through
\* the completion-matching step
MatchedSubs ==
    {j \in 1..Len(outcomes) :
        /\ outcomes[j] = "confirmed"
        /\ j < Len(outcomes) \/ pc # "confirmed"}

\* C30: after a confirmed transfer the completion-matching step marks the
\* first record with the same address and amount that is not yet complete,
\* so every confirmed transfer of a run completes a record of its own: with
\* two identical rows, two confirmed transfers leave both complete.
C30_SuccessMarksFirstIncompleteMatch ==
    /\ [][(pc = "confirmed" /\ pc' \in {"loop", "done"}) =>
            LET r == recipients[Current]
                i == FirstIncompleteMatch(recipients, 1, r.address, r.amount)
            IN /\ i # 0
               /\ recipients' = [recipients EXCEPT ![i].transferred = TRUE]]_vars
    /\ [](InRun \/ pc = "done" =>
            \A j \in MatchedSubs : recipients[runSubs[j]].transferred)


----------------------------------------------------------------------------
\* the snapshot next keeps the records of the snapshot prev: same length,
\* same addresses and amounts in the same order, no completion flag cleared
KeepsRecords(prev, next) ==
    /\ next.kind = "json"
    /\ Len(next.data) = Len(prev.data)
    /\ \A i \in 1..Len(prev.data) :
          /\ next.data[i].address = prev.data[i].address
          /\ next.data[i].amount = prev.data[i].amount
          /\ prev.data[i].transferred => next.data[i].transferred

\* C31: across runs and kills, a step that leaves a snapshot on disk keeps
\* its records, in order, with their addresses and amounts; only completion
\* flags change, none goes back from true to false, and no record is
\* removed.
C31_SnapshotRecordsImmutable ==
    [][disk.kind = "json" => KeepsRecords(disk, disk')]_vars


\* C32: a run that aborts at pre-flight, for an insufficient balance or for
\* a row of the recipients file the validator refuses, leaves the progress
\* file as it was: it is neither created nor rewritten.
C32_PreflightAbortLeavesSnapshot ==
    [][(/\ pc = "idle"
        /\ pc' = "exited"
        /\ report' \in {"insufficient", "csv"}) => disk' = disk]_vars

C32_Witness ==
    /\ pc = "exited"
    /\ report = "insufficient"
    /\ disk.kind = "json"
    /\ \E i \in 1..Len(disk.data) : disk.data[i].transferred


----------------------------------------------------------------------------
\* the step of executeDrainWallet a ledger-mutating call belongs to
StepRank(kind) ==
    CASE kind = "unwrap" -> 1
      [] kind = "transfer" -> 2
      [] kind = "close" -> 3
      [] kind = "sweep" -> 4

\* C33: the ledger-mutating calls of a drain are issued in the order
\* unwraps, token transfers, account closes, native sweep: no call of an
\* earlier step follows a call of a later step, and there is at most one
\* sweep.
C33_CallsInStepOrder ==
    /\ \A i \in 1..Len(calls), j \in 1..Len(calls) :
          i < j => StepRank(calls[i].kind) <= StepRank(calls[j].kind)
    /\ Cardinality({i \in 1..Len(calls) : calls[i].kind = "sweep"}) <= 1

C33_Witness ==
    /\ dpc = "returned"
    /\ \A kind \in {"unwrap", "transfer", "close", "sweep"} :
          \E i \in 1..Len(calls) : calls[i].kind = kind
    /\ Cardinality({i \in 1..Len(calls) : calls[i].kind = "transfer"}) >= 2


----------------------------------------------------------------------------
\* the native balance does not cover the estimated cost of the destination
\* accounts to create plus the safety margin
BelowCreationCost ==
    walletSol < Cardinality(atas) * EstimatedRentPerATA + TokenSafetyBuffer

PreflightErrorRecorded ==
    \E i \in 1..Len(result.errors) : result.errors[i].kind = "preflight"

\* C34: when transferAllTokens finds the native balance below the estimated
\* account-creation cost plus the safety margin, it submits no token
\* transfer, the condition is appended to the error list and nothing is
\* thrown, no account is closed, and the drain goes on with the sweep.
C34_LowBalanceSkipsTokensNotThrown ==
    /\ [][(dpc = "lookups" /\ lookups = {} /\ BelowCreationCost) =>
            /\ dpc' = "sweep"
            /\ thrownBy' = thrownBy
            /\ calls' = calls
            /\ result'.errors = Append(result.errors, Err("preflight", "none"))
            /\ result'.tokens = <<>>
            /\ result'.closedAccounts = 0]_vars
    /\ [](PreflightErrorRecorded =>
            /\ \A i \in 1..Len(calls) : calls[i].kind \notin {"transfer", "close"}
            /\ result.tokens = <<>>
            /\ result.closedAccounts = 0
            /\ thrownBy \notin {"preflight", "key", "discover", "keepSol"})

C34_Witness ==
    /\ dpc = "returned"
    /\ PreflightErrorRecorded
    /\ Len(nonWsolAccounts(filtered)) >= 2
    /\ opts.closeAccounts /\ opts.reclaimRent
    /\ \E i \in 1..Len(calls) : calls[i].kind = "sweep" /\ calls[i].ok


----------------------------------------------------------------------------
\* C35: when a drain returns, transferredAssets.sol of its result is the
\* native amount the drain sent to the destination: the amount of the
\* confirmed sweep (as computed, or as rounded down to lamports), or 0 when
\* the sweep was skipped.
C35_ReportedSolIsSweptAmount ==
    dpc = "returned" =>
       IF SweepConfirmed
       THEN result.sol \in {sweepAmount.transferAmount, sweepAmount.lamports}
       ELSE result.sol = 0


----------------------------------------------------------------------------
\* C36: in every DrainResult closedAccounts is at most the number of
\* entries of transferredAssets.tokens, which is at most the number of
\* non-wrapped holdings that passed the filters; closedAccounts is 0 when
\* closeAccounts or reclaimRent is switched off.
C36_ClosedAtMostTransferredAtMostFiltered ==
    /\ result.closedAccounts <= Len(result.tokens)
    /\ Len(result.tokens) <= Len(nonWsolAccounts(filtered))
    /\ (~opts.closeAccounts \/ ~opts.reclaimRent) =>
          /\ result.closedAccounts = 0
          /\ \A i \in 1..Len(calls) : calls[i].kind # "close"

C36_Witness ==
    /\ dpc = "returned"
    /\ result.closedAccounts = 1
    /\ Len(result.tokens) = 2
    /\ \E i \in 1..Len(calls) : calls[i].kind = "close" /\ ~calls[i].ok


----------------------------------------------------------------------------
\* the attempted pairs whose drain returned
SucceededPairs ==
    {j \in 1..Len(invocations) : invocations[j].outcome = "returned"}

\* C37: the closing status line says that all operations failed only if no
\* attempted pair succeeded, and that all completed successfully only if
\* every attempted pair succeeded, with or without an index allowlist.
C37_StatusLineMatchesAttemptedPairs ==
    bpc = "done" =>
       /\ statusLine = "allFailed" => SucceededPairs = {}
       /\ statusLine = "allSucceeded" => failedOps = <<>>


----------------------------------------------------------------------------
(***************************************************************************)
(* The amount conversion of a token transfer of the drain: the raw balance *)
(* of a holding is divided by 10^decimals (transferAllTokens) and turned   *)
(* back into base units by convertToRawAmount (executeAtomicTokenTransfer).*)
(* A text is a sequence of character codes: the digits 0..9 and the codes  *)
(* below.                                                                  *)
(***************************************************************************)
MaxRaw == 120
MaxDecimals == 9

\* the characters '.', 'e' and '-' of a number's text
DotChar == 10
EChar == 11
MinusChar == 12

Zeros(n) == [i \in 1..n |-> 0]

RECURSIVE StripTrailingZeros(_)
StripTrailingZeros(s) ==
    IF s # <<>> /\ s[Len(s)] = 0
    THEN StripTrailingZeros(SubSeq(s, 1, Len(s) - 1))
    ELSE s

\* Number(amount) / Math.pow(10, decimals): the double nearest to
\* num * 10^-scale (a raw amount of this size has few enough digits for
\* the shortest text of the double to be that decimal number)
UiAmount(raw, decimals) == [num |-> raw, scale |-> decimals]

\* Number.prototype.toString: decimal notation from 1e-6 up, and below
\* 1e-6 the exponent notation d[.ddd]e-n
numberToString(v) ==
    LET digits == DecimalText(v.num)
        L == Len(digits)
        sig == StripTrailingZeros(digits)
    IN IF v.num = 0 THEN <<0>>
       ELSE IF v.scale - L >= 6
       THEN <<sig[1]>>
            \o (IF Len(sig) > 1 THEN <<DotChar>> \o Tail(sig) ELSE <<>>)
            \o <<EChar, MinusChar>> \o DecimalText(v.scale + 1 - L)
       ELSE LET padded == Zeros(Max(v.scale + 1 - L, 0)) \o digits
                cut == Len(padded) - v.scale
                frac == StripTrailingZeros(
                            SubSeq(padded, cut + 1, Len(padded)))
            IN SubSeq(padded, 1, cut)
               \o (IF frac = <<>> THEN <<>> ELSE <<DotChar>> \o frac)

\* const [integerPart, decimalPart = ''] = amountStr.split('.')
SplitDot(str) ==
    LET dots == {i \in 1..Len(str) : str[i] = DotChar}
        p == IF dots = {} THEN 0
             ELSE CHOOSE i \in dots : \A j \in dots : i <= j
    IN IF p = 0 THEN [integerPart |-> str, decimalPart |-> <<>>]
       ELSE [integerPart |-> SubSeq(str, 1, p - 1),
             decimalPart |-> SubSeq(str, p + 1, Len(str))]

\* decimalPart.padEnd(decimals, '0').substring(0, decimals)
PadOrTruncate(decimalPart, decimals) ==
    LET padded == IF Len(decimalPart) >= decimals THEN decimalPart
                  ELSE decimalPart \o Zeros(decimals - Len(decimalPart))
    IN SubSeq(padded, 1, decimals)

\* BigInt(text): a SyntaxError unless the text is made of digits
BigInt(text) ==
    IF \E i \in 1..Len(text) : text[i] \notin 0..9
    THEN [throws |-> TRUE, value |-> 0]
    ELSE [throws |-> FALSE, value |-> parseInt10(text)]

convertToRawAmount(amount, decimals) ==
    LET amountStr == numberToString(amount)
        parts == SplitDot(amountStr)
        paddedDecimalPart == PadOrTruncate(parts.decimalPart, decimals)
        rawAmountStr == parts.integerPart \o paddedDecimalPart
    IN BigInt(rawAmountStr)

\* transferAllTokens computes the decimal amount of the holding
ConvDivide ==
    /\ cpc = "holding"
    /\ cpc' = "amount"
    /\ tokAmount' = UiAmount(tokRaw, tokDecimals)
    /\ UNCHANGED <<wvars, mvars, bvars, evars, dvars, tokRaw, tokDecimals,
                   rawOut>>

\* executeAtomicTokenTransfer turns the amount into base units
ConvToRaw ==
    /\ cpc = "amount"
    /\ cpc' = "converted"
    /\ rawOut' = convertToRawAmount(tokAmount, tokDecimals)
    /\ UNCHANGED <<wvars, mvars, bvars, evars, dvars, tokRaw, tokDecimals,
                   tokAmount>>

\* a holding with any raw balance and any number of decimals
ConvInit ==
    /\ EngineIdle
    /\ DrainIdle
    /\ BatchIdle
    /\ ManyIdle
    /\ UnwrapIdle
    /\ cpc = "holding"
    /\ tokRaw \in 0..MaxRaw
    /\ tokDecimals \in 0..MaxDecimals
    /\ tokAmount = [num |-> 0, scale |-> 0]
    /\ rawOut = [throws |-> FALSE, value |-> 0]

ConvNext ==
    \/ ConvDivide
    \/ ConvToRaw

ConvSpec == ConvInit /\ [][ConvNext]_vars

\* C38: converting a raw amount x with d decimals to the decimal amount
\* x / 10^d and back with convertToRawAmount(amount, d) yields x, so that
\* the transfer is submitted for the full raw balance.
C38_RawAmountRoundTrip ==
    cpc = "converted" => rawOut = [throws |-> FALSE, value |-> tokRaw]


----------------------------------------------------------------------------
(***************************************************************************)
(* The unwrap-sol command (unwrapSol).  Amounts are in lamports.           *)
(***************************************************************************)
MaxWrapped == 5

\* amount || wsolBalance, capped at the balance
AmountToUnwrap(amount, balance) ==
    LET requested == IF amount = 0 THEN balance ELSE amount
    IN IF requested > balance THEN balance ELSE requested

\* unwrapSol up to the transaction: account check, balance, amount
UnwrapStart(open, balance, amount, infoOk) ==
    /\ wpc = "idle"
    /\ wsolOpen' = open
    /\ wsolLamports' = IF open THEN balance ELSE 0
    /\ wAmount' = amount
    /\ IF ~open \/ ~infoOk
       THEN /\ wpc' = "thrown"
            /\ UNCHANGED <<wsolBalance, amountToUnwrap>>
       ELSE /\ wsolBalance' = balance
            /\ amountToUnwrap' = AmountToUnwrap(amount, balance)
            /\ wpc' = IF AmountToUnwrap(amount, balance) <= 0
                      THEN "noaction" ELSE "sending"
    /\ UNCHANGED <<cvars, mvars, bvars, evars, dvars>>

\* the transaction of unwrapSol: syncNative and closeAccount when the whole
\* balance is unwrapped, and the same two instructions in the branch for a
\* smaller amount ("Partial unwrapping not supported yet, unwrapping all")
UnwrapSend(ok) ==
    /\ wpc = "sending"
    /\ IF ~ok
       THEN wpc' = "thrown" /\ UNCHANGED <<wsolOpen, wsolLamports>>
       ELSE /\ wpc' = "done"
            /\ IF amountToUnwrap >= wsolBalance
               THEN wsolOpen' = FALSE /\ wsolLamports' = 0
               ELSE wsolOpen' = FALSE /\ wsolLamports' = 0
    /\ UNCHANGED <<cvars, mvars, bvars, evars, dvars, wsolBalance, wAmount,
                   amountToUnwrap>>

UnwrapInit ==
    EngineIdle /\ DrainIdle /\ BatchIdle /\ ManyIdle /\ ConvIdle /\ UnwrapIdle

UnwrapInvoke ==
    /\ wpc = "idle"
    /\ \E open \in BOOLEAN, balance \in 0..MaxWrapped,
          amount \in 0..(MaxWrapped + 1), infoOk \in BOOLEAN :
          UnwrapStart(open, balance, amount, infoOk)

UnwrapSubmit == wpc = "sending" /\ \E ok \in BOOLEAN : UnwrapSend(ok)

UnwrapNext ==
    \/ UnwrapInvoke
    \/ UnwrapSubmit

UnwrapSpec == UnwrapInit /\ [][UnwrapNext]_vars

\* C39: unwrapSol called with an amount a, 0 < a < the wrapped balance,
\* unwraps exactly a: the wrapped balance decreases by a and the wrapped
\* account stays open with the remainder.
C39_PartialUnwrapLeavesRemainder ==
    (wpc = "done" /\ 0 < wAmount /\ wAmount < wsolBalance) =>
       /\ wsolOpen
       /\ wsolLamports = wsolBalance - wAmount

====
